---- MODULE Spec2Model ----
(***************************************************************************)
(* Model of the chatcode job orchestration engine: per-session dispatcher, *)
(* orchestrator job lifecycle, runner event stream, executor-session store *)
(* and workdir policy.                                                     *)
(***************************************************************************)
EXTENDS Integers, Sequences, FiniteSets, TLC

\* ------------------------------------------------------------------ bounds
MaxJobs == 2
MaxLines == 1
MaxSaves == 3

MaxHandlers == 2
MaxConcurrentOpt == 2
MaxBufferOpt == 2
MaxSessions == 1
MaxChildLines == 2
MaxEvents == 2
MaxChunkOpt == 2
MaxChecks == 2
MaxStoreCalls == 2

JobIds == 1..MaxJobs
NoJob == 0
HandlerIds == 1..MaxHandlers

\* --------------------------------------------------------------- paths
\* A path is a sequence of one-character strings; "" is the empty sequence.
Sep == "/"
EmptyPath == << >>
PRoot == <<"/", "r">>
PApp == <<"/", "r", "/", "a">>
PEvil == <<"/", "r", "e">>
PEtc == <<"/", "e">>
PEscape == <<"/", "r", "/", ".", ".", "/", "e">>
PRelApp == <<"a">>
PRelEscape == <<".", ".", "/", "e">>
PDotApp == <<"/", "r", "/", ".", "/", "a">>

HasPrefix(s, p) == Len(p) <= Len(s) /\ SubSeq(s, 1, Len(p)) = p

IsAbs(p) == Len(p) > 0 /\ p[1] = Sep

RECURSIVE SplitAcc(_, _, _)
SplitAcc(s, cur, acc) ==
    IF s = << >> THEN Append(acc, cur)
    ELSE IF Head(s) = Sep THEN SplitAcc(Tail(s), << >>, Append(acc, cur))
    ELSE SplitAcc(Tail(s), Append(cur, Head(s)), acc)

Split(s) == SplitAcc(s, << >>, << >>)

RECURSIVE CleanFold(_, _, _)
CleanFold(segs, out, rooted) ==
    IF segs = << >> THEN out
    ELSE LET h == Head(segs)
             t == Tail(segs)
         IN IF h = << >> \/ h = <<".">> THEN CleanFold(t, out, rooted)
            ELSE IF h = <<".", ".">>
                 THEN IF Len(out) > 0 /\ out[Len(out)] # <<".", ".">>
                      THEN CleanFold(t, SubSeq(out, 1, Len(out) - 1), rooted)
                      ELSE IF rooted THEN CleanFold(t, out, rooted)
                           ELSE CleanFold(t, Append(out, h), rooted)
                 ELSE CleanFold(t, Append(out, h), rooted)

RECURSIVE JoinSegs(_)
JoinSegs(segs) ==
    IF segs = << >> THEN << >>
    ELSE IF Len(segs) = 1 THEN Head(segs)
    ELSE Head(segs) \o <<Sep>> \o JoinSegs(Tail(segs))

\* filepath.Clean
CleanNoop(p) == p

\* filepath.Clean
Clean(p) ==
    IF p = << >> THEN <<".">>
    ELSE LET rooted == p[1] = Sep
             body == JoinSegs(CleanFold(Split(p), << >>, rooted))
         IN IF rooted THEN <<Sep>> \o body
            ELSE IF body = << >> THEN <<".">> ELSE body

\* filepath.Join(base, target), both non-empty
Join(base, target) == Clean(base \o <<Sep>> \o target)

\* --------------------------------------------------------------- policy
\* security.New(allowlist, roots): main.go passes the configured allowlist
\* and the single project root
VARIABLE allowlist  \* Policy.allowlist, fixed at construction
\* main.go: whether the root context (signal.NotifyContext) has been cancelled
VARIABLE rootDone
\* Store: the sessions table row by row, each with its workdir and context_json
VARIABLE sessionRows
\* SetSessionPermissionMode calls between their SELECT and their INSERT, and the last values written per key
VARIABLE storeCalls
roots == <<Clean(PRoot)>>

ValidateExecutor(name) == name \in allowlist

WorkdirUnderRootNoSep(wd, root) == wd = root \/ HasPrefix(wd, root)

WorkdirUnderRoot(wd, root) == wd = root \/ HasPrefix(wd, root \o <<Sep>>)

\* Policy.ValidateWorkdir on a Policy whose roots are rs
ValidateWorkdirIn(rs, workdir) ==
    /\ workdir # EmptyPath
    /\ \E i \in 1..Len(rs) : WorkdirUnderRoot(Clean(workdir), rs[i])

ValidateWorkdir(workdir) == ValidateWorkdirIn(roots, workdir)

\* security.New: empty roots are skipped, the others are cleaned
RECURSIVE CleanRoots(_)
CleanRoots(rs) ==
    IF rs = << >> THEN << >>
    ELSE IF Head(rs) = EmptyPath THEN CleanRoots(Tail(rs))
    ELSE <<Clean(Head(rs))>> \o CleanRoots(Tail(rs))

ValidateExecutorOnly(executor, workdir) == ValidateExecutor(executor)

Validate(executor, workdir) == ValidateExecutor(executor) /\ ValidateWorkdir(workdir)

PrimaryRoot == IF Len(roots) = 0 THEN EmptyPath ELSE roots[1]

\* ------------------------------------------------------------ session keys
\* domain.SessionKey; chat and thread ids are character sequences
KTg == [platform |-> "telegram", chat |-> <<"1">>, thread |-> << >>]
KWa == [platform |-> "whatsapp", chat |-> <<"1">>, thread |-> << >>]
Keys == {KTg, KWa}

\* SessionKey.String()
KeyString(k) ==
    IF k.thread = << >> THEN <<k.platform, ":">> \o k.chat
    ELSE <<k.platform, ":">> \o k.chat \o <<":">> \o k.thread

KeyStrings == {KeyString(k) : k \in Keys}

\* Go maps as functions with a growing domain
MapPut(m, k, v) == [x \in (DOMAIN m) \cup {k} |-> IF x = k THEN v ELSE m[x]]
MapDel(m, k) == [x \in (DOMAIN m) \ {k} |-> m[x]]
EmptyMap == [x \in {} |-> 0]

\* ------------------------------------------------------------------ state
VARIABLES
    jobs,          \* Store: jobs table, job id -> row
    events,        \* Store: events table, job id -> rows in insertion order
    execSessions,  \* Store: executor_sessions table, set of rows
    sessions,      \* Store: sessions table, session_key -> workdir
    workdirs,      \* session.Manager.workdirs
    chans,         \* Dispatcher: channels with their consume goroutine
    sessionQueue,  \* Dispatcher.sessionQueue: key string -> channel
    sem,           \* Dispatcher.sem: slots taken
    semCap,        \* cap(Dispatcher.sem)
    buffer,        \* Dispatcher.buffer
    inflight,      \* Orchestrator.jobs: ids with a registered cancel func
    cancelled,     \* job ids whose registered cancel func has been called
    handlers,      \* message handler invocations in progress
    nextJob,       \* number of job ids drawn so far
    sendOrder,     \* history per key: job ids in the order Enqueue's send completed
    runLog,        \* history per key: worker invocations begun and returned
    advertised,    \* history: the session id captured from each job's stream
    stopped,       \* history: job ids for which /stop was handled while the child ran
    saves,         \* history: SaveSession calls made directly on the adapter
    replies,       \* history per job: the messages about it sent to the transport
    lastReply,     \* per key: the reply to the last message handled, (none) if it sent none
    run,           \* one Runner.RunJob call with the child's pipes and readers
    pending,       \* session.Manager.pending
    executors,     \* session.Manager.executors
    modes,         \* session.Manager.modes
    contexts,      \* Store: sessions.context_json, session_key -> mode
    mu,            \* session.Manager.mu: the caller holding it, 0 when free
    sink,          \* one job's persistSink, Batcher and the sends they make
    checked        \* history: the ValidateWorkdir calls made on policies built by New

vars == <<jobs, events, execSessions, sessions, workdirs, chans, sessionQueue,
          sem, semCap, buffer, inflight, cancelled, handlers, nextJob,
          sendOrder, runLog, advertised, stopped, saves, allowlist, rootDone, sessionRows, storeCalls, sink, checked, replies,
          lastReply, run, pending, executors, modes, contexts, mu>>

\* ---------------------------------------------------------------- contexts
\* The root context of main.go, the context of one HTTP request (live exactly
\* while its handler runs) and a request context whose request has ended.
RootCtx == [kind |-> "root", h |-> 0]
ReqCtx(h) == [kind |-> "req", h |-> h]
DeadCtx == [kind |-> "dead", h |-> 0]
CtxDone(c) == c.kind = "dead" \/ (c.kind = "root" /\ rootDone)

\* whatsapp: handler(req.Context(), msg); telegram: handler(ctx, msg)
HandlerCtx(h, k) == IF k.platform = "whatsapp" THEN ReqCtx(h) ELSE RootCtx

\* ------------------------------------------------------------------- store
Sids == {"S1", "S2"}
Blank == " "
TrimSpace(s) == IF s = Blank THEN "" ELSE s

NoJobVal == [id |-> NoJob, key |-> KTg, executor |-> "", workdir |-> EmptyPath,
             session |-> "", mode |-> ""]

CreateJob(tbl, job) ==
    MapPut(tbl, job.id, [status |-> "pending", key |-> job.key,
                         executor |-> job.executor, workdir |-> job.workdir])

\* a cancelled context makes ExecContext return before the statement runs
UpdateJobStatus(tbl, ctx, id, status) ==
    IF CtxDone(ctx) \/ id \notin DOMAIN tbl THEN tbl
    ELSE [tbl EXCEPT ![id].status = status]

AppendEvent(tbl, ctxDone, ev) ==
    IF ctxDone THEN tbl
    ELSE [tbl EXCEPT ![ev.job] = Append(@, [seq |-> ev.seq, is_final |-> ev.is_final])]

SameExecSessionKeyNoThread(r, executor, key, workdir) ==
    /\ r.executor = executor
    /\ r.platform = key.platform
    /\ r.chat_id = key.chat
    /\ r.workdir = workdir

\* executor_sessions PRIMARY KEY (executor, platform, chat_id, thread_id, workdir)
SameExecSessionKey(r, executor, key, workdir) ==
    /\ r.executor = executor
    /\ r.platform = key.platform
    /\ r.chat_id = key.chat
    /\ r.thread_id = key.thread
    /\ r.workdir = workdir

GetExecutorSession(tbl, executor, key, workdir) ==
    LET m == {r \in tbl : SameExecSessionKey(r, executor, key, workdir)}
    IN IF m = {} THEN "" ELSE (CHOOSE r \in m : TRUE).session_id

UpsertExecutorSession(tbl, executor, key, workdir, sid) ==
    {r \in tbl : ~SameExecSessionKey(r, executor, key, workdir)}
    \cup {[executor |-> executor, platform |-> key.platform, chat_id |-> key.chat,
           thread_id |-> key.thread, workdir |-> workdir, session_id |-> sid]}

UpsertSession(tbl, key, workdir) == MapPut(tbl, KeyString(key), workdir)

\* domain.NormalizePermissionMode: anything but full-access is sandbox
NormalizePermissionMode(mode) == IF mode = "full-access" THEN "full-access" ELSE "sandbox"

\* the mode field of context_json; sandbox when the row or the field is absent
SessionPermissionMode(tbl, key) ==
    IF KeyString(key) \in DOMAIN tbl THEN NormalizePermissionMode(tbl[KeyString(key)])
    ELSE "sandbox"

SetSessionPermissionModeNoWrite(tbl, key, mode) == tbl

\* the upsert writes context_json only; workdir is kept
SetSessionPermissionMode(tbl, key, mode) ==
    MapPut(tbl, KeyString(key), NormalizePermissionMode(mode))

SessionWorkdir(tbl, key) ==
    IF KeyString(key) \in DOMAIN tbl THEN tbl[KeyString(key)] ELSE EmptyPath

\* The sessions table row by row. A row is [key, workdir, context], context
\* being the decoded context_json object; session_key is the primary key.
HasRow(rows, ks) == \E r \in rows : r.key = ks

\* the zero values Scan leaves when the SELECT finds no row
NoRow(ks) == [key |-> ks, workdir |-> EmptyPath, context |-> EmptyMap]

\* SELECT workdir, context_json FROM sessions WHERE session_key = ?
SelectSession(rows, ks) ==
    IF HasRow(rows, ks) THEN CHOOSE r \in rows : r.key = ks ELSE NoRow(ks)

\* UpsertSession's statement: the insert leaves context_json at its default
\* '{}', the conflict branch sets workdir (and the timestamps) only
UpsertSessionRow(rows, ks, workdir) ==
    IF HasRow(rows, ks)
    THEN {IF r.key = ks THEN [r EXCEPT !.workdir = workdir] ELSE r : r \in rows}
    ELSE rows \cup {[key |-> ks, workdir |-> workdir, context |-> EmptyMap]}

UpsertSessionContextAll(rows, ks, workdir, context) ==
    {r \in rows : r.key # ks} \cup {[key |-> ks, workdir |-> workdir, context |-> context]}

\* SetSessionPermissionMode's statement: the insert writes the workdir and the
\* context it was given, the conflict branch sets context_json (and the
\* timestamps) only
UpsertSessionContext(rows, ks, workdir, context) ==
    IF HasRow(rows, ks)
    THEN {IF r.key = ks THEN [r EXCEPT !.context = context] ELSE r : r \in rows}
    ELSE rows \cup {[key |-> ks, workdir |-> workdir, context |-> context]}

\* payload["mode"] = mode on the decoded context
PayloadWithMode(context, mode) == MapPut(context, "mode", mode)

RowMode(r) == IF "mode" \in DOMAIN r.context THEN r.context["mode"] ELSE ""

\* ------------------------------------------------------- executor adapters
\* CodexExecutor / ClaudeExecutor: LoadSession, SaveSession (same code in both)
LoadSession(tbl, ctx, name, job) ==
    IF CtxDone(ctx) THEN "" ELSE GetExecutorSession(tbl, name, job.key, job.workdir)

SaveSession(tbl, ctx, name, job, sid) ==
    IF TrimSpace(sid) = "" \/ CtxDone(ctx) THEN tbl
    ELSE UpsertExecutorSession(tbl, name, job.key, job.workdir, sid)

\* ClaudeExecutor.IsSuccessExitCode: exit code 1 is not fatal for the Claude
\* CLI; an executor that is not ExitCodeAware succeeds with exit code 0 only
IsSuccessExitCode(exName, code) ==
    IF exName = "claude" THEN code \in {0, 1} ELSE code = 0

\* --------------------------------------------------------- session manager
\* Manager.Workdir: the value returned and the cache afterwards
Workdir(key) ==
    IF KeyString(key) \in DOMAIN workdirs THEN workdirs[KeyString(key)]
    ELSE SessionWorkdir(sessions, key)

WorkdirCache(key) ==
    IF KeyString(key) \notin DOMAIN workdirs /\ SessionWorkdir(sessions, key) # EmptyPath
    THEN MapPut(workdirs, KeyString(key), SessionWorkdir(sessions, key))
    ELSE workdirs

\* Manager.PermissionMode: the value returned and the cache afterwards
PermissionMode(key) ==
    IF KeyString(key) \in DOMAIN modes THEN modes[KeyString(key)]
    ELSE NormalizePermissionMode(SessionPermissionMode(contexts, key))

PermissionModeCache(key) == MapPut(modes, KeyString(key), PermissionMode(key))

\* Manager.DefaultExecutor: the zero value when nothing is stored
DefaultExecutor(key) ==
    IF KeyString(key) \in DOMAIN executors THEN executors[KeyString(key)] ELSE ""

defaultExecutorStored(key) == DefaultExecutor(key)

\* Orchestrator.defaultExecutor: codex when no executor was chosen
defaultExecutor(key) == IF DefaultExecutor(key) = "" THEN "codex" ELSE DefaultExecutor(key)

\* the pending-input slot of a key, "" when none is set
PendingInput(key) ==
    IF KeyString(key) \in DOMAIN pending THEN pending[KeyString(key)] ELSE ""

\* Transport.Send fails on a context that has ended
Send(log, ctx, text) == IF CtxDone(ctx) THEN log ELSE Append(log, text)

\* -------------------------------------------------------------------- init
StoreCallIds == 1..MaxStoreCalls
IdleStoreCall == [pc |-> "idle", key |-> KTg, mode |-> "", workdir |-> EmptyPath,
                  context |-> EmptyMap, found |-> FALSE, conflict |-> FALSE]
NoStoreCalls == [calls |-> [c \in StoreCallIds |-> IdleStoreCall],
                 workdir |-> EmptyMap, mode |-> EmptyMap]
\* no Runner.RunJob call in progress
Streams == {"stdout", "stderr"}

\* One call of Runner.RunJob seen at the grain of its goroutines: where
\* RunJob is, the child, its two pipes, the two emit goroutines, the shared
\* seq counter, the Runner's context and the events handed to the sink.
IdleRun == [pc |-> "idle", job |-> NoJob, spawned |-> FALSE, child |-> "none",
            code |-> 0, ctxDone |-> FALSE, closed |-> FALSE, seq |-> 0,
            pipe |-> [s \in Streams |-> 0], written |-> [s \in Streams |-> 0],
            emit |-> [s \in Streams |-> [pc |-> "none", next |-> 0]],
            long |-> [s \in Streams |-> FALSE],
            tooLong |-> [s \in Streams |-> FALSE],
            delivered |-> << >>, err |-> FALSE]

\* no persistSink built yet
NoEvent == [seq |-> 0, stream |-> "", chunk |-> << >>, is_final |-> FALSE,
            format |-> ""]

IdleSink == [pc |-> "idle", adapter |-> "", maxChunk |-> 0, ctxDone |-> FALSE,
             code |-> 0, seq |-> 0, ev |-> NoEvent, msg |-> << >>,
             handled |-> << >>, sent |-> << >>, err |-> FALSE,
             reading |-> FALSE, status |-> "running"]

IdleHandler == [pc |-> "idle", key |-> KTg, job |-> NoJobVal, q |-> 0, ctx |-> RootCtx,
                text |-> << >>, action |-> ""]

\* NewSQLiteStore on a fresh database, NewManager, NewOrchestrator
InitStore ==
    /\ jobs = EmptyMap
    /\ events = [j \in JobIds |-> << >>]
    /\ execSessions = {}
    /\ sessions = EmptyMap
    /\ contexts = EmptyMap

InitOrchestrator ==
    /\ workdirs = EmptyMap
    /\ chans = << >>
    /\ sessionQueue = EmptyMap
    /\ sem = 0
    /\ inflight = {}
    /\ cancelled = {}
    /\ handlers = [h \in HandlerIds |-> IdleHandler]
    /\ nextJob = 0
    /\ sendOrder = [ks \in KeyStrings |-> << >>]
    /\ runLog = [ks \in KeyStrings |-> << >>]
    /\ advertised = [j \in JobIds |-> ""]
    /\ stopped = {}
    /\ saves = << >>
    /\ replies = [j \in JobIds |-> << >>]
    /\ lastReply = [ks \in KeyStrings |-> ""]
    /\ run = IdleRun
    /\ rootDone = FALSE
    /\ sessionRows = {}
    /\ storeCalls = NoStoreCalls
    /\ sink = IdleSink
    /\ checked = << >>
    /\ pending = EmptyMap
    /\ executors = EmptyMap
    /\ modes = EmptyMap
    /\ mu = 0
    /\ allowlist = {"codex", "claude"}

Init ==
    /\ InitStore
    /\ InitOrchestrator
    /\ semCap = MaxConcurrentOpt
    /\ buffer = MaxBufferOpt

\* --------------------------------------------------------- message handlers
\* telegram.Bot.Start calls the handler from one loop; the whatsapp HTTP
\* server calls it from one goroutine per request.
CanStart(k) ==
    k.platform = "telegram" =>
        \A h \in HandlerIds : handlers[h].pc = "idle" \/ handlers[h].key.platform # "telegram"

\* setWorkdir: the target path, or EmptyPath when it is rejected
setWorkdirTarget(wd) ==
    LET target == IF IsAbs(wd) THEN wd ELSE Join(PrimaryRoot, wd)
    IN IF ~IsAbs(wd) /\ PrimaryRoot = EmptyPath THEN EmptyPath
       ELSE IF ValidateWorkdir(Clean(target)) THEN Clean(target) ELSE EmptyPath

\* "/cd" and "/cd <path>": handleCommand, setWorkdir, Manager.SetWorkdir
HandleCd(k, arg) ==
    /\ CanStart(k)
    /\ PendingInput(k) = ""
    /\ LET target == setWorkdirTarget(arg)
       IN IF target = EmptyPath
          THEN /\ UNCHANGED <<workdirs, sessions>>
               /\ lastReply' = [lastReply EXCEPT ![KeyString(k)] = "workdir rejected"]
          ELSE /\ workdirs' = MapPut(workdirs, KeyString(k), target)
               /\ sessions' = UpsertSession(sessions, k, target)
               /\ lastReply' = [lastReply EXCEPT ![KeyString(k)] = "workdir set to"]
    /\ UNCHANGED <<jobs, events, execSessions, chans, sessionQueue, sem, semCap,
                   buffer, inflight, cancelled, handlers, nextJob, sendOrder,
                   runLog, advertised, stopped, saves, allowlist, rootDone, sessionRows, storeCalls, sink, checked, replies, run,
                   pending, executors, modes, contexts, mu>>

\* "/stop <job_id>": the registered cancel func is called, or the id is
\* reported as not found
JobsLoadKnown(id) == id \in DOMAIN jobs

\* o.jobs.Load(jobID)
JobsLoad(id) == id \in inflight

HandleStop(k, id) ==
    /\ CanStart(k)
    /\ PendingInput(k) = ""
    /\ IF JobsLoad(id)
       THEN /\ cancelled' = cancelled \cup {id}
            /\ lastReply' = [lastReply EXCEPT ![KeyString(k)] = "stop signal sent"]
            /\ stopped' = IF \E i \in 1..Len(chans) : /\ chans[i].w.job.id = id
                                                      /\ chans[i].pc = "child"
                          THEN stopped \cup {id} ELSE stopped
       ELSE /\ lastReply' = [lastReply EXCEPT ![KeyString(k)] = "job not found"]
            /\ UNCHANGED <<cancelled, stopped>>
    /\ UNCHANGED <<jobs, events, execSessions, sessions, workdirs, chans,
                   sessionQueue, sem, semCap, buffer, inflight, handlers,
                   nextJob, sendOrder, runLog, advertised, saves, allowlist, rootDone, sessionRows, storeCalls, sink, checked,
                   replies, run, pending, executors, modes, contexts, mu>>

WorkdirUnsetNever(wd) == FALSE

\* enqueueJob: if wd == "" { reply "workdir is not set, use /cd ..." }
WorkdirUnset(wd) == wd = EmptyPath

\* enqueueJob(ctx, key, exName, prompt) up to CreateJob, for a prompt that is
\* not empty
enqueueJobAs(h, k, exName) ==
    /\ handlers[h].pc = "idle"
    /\ CanStart(k)
    /\ PendingInput(k) = ""
    /\ nextJob < MaxJobs
    /\ LET wd == Workdir(k)
           ctx == HandlerCtx(h, k)
           job == [id |-> nextJob + 1, key |-> k, executor |-> exName,
                   workdir |-> wd,
                   session |-> LoadSession(execSessions, ctx, exName,
                                           [key |-> k, workdir |-> wd]),
                   mode |-> PermissionMode(k)]
       IN /\ workdirs' = WorkdirCache(k)
          /\ IF WorkdirUnset(wd)
             THEN /\ lastReply' = [lastReply EXCEPT ![KeyString(k)] = "workdir is not set"]
                  /\ UNCHANGED <<jobs, handlers, nextJob, modes>>
             ELSE IF ~Validate(exName, wd)
             THEN /\ lastReply' = [lastReply EXCEPT ![KeyString(k)] = "job rejected"]
                  /\ modes' = PermissionModeCache(k)
                  /\ UNCHANGED <<jobs, handlers, nextJob>>
             ELSE /\ jobs' = CreateJob(jobs, job)
                  /\ nextJob' = nextJob + 1
                  /\ modes' = PermissionModeCache(k)
                  /\ handlers' = [handlers EXCEPT ![h] =
                        [IdleHandler EXCEPT !.pc = "enqueue", !.key = k, !.job = job,
                                            !.ctx = ctx]]
                  /\ UNCHANGED lastReply
    /\ UNCHANGED <<events, execSessions, sessions, chans, sessionQueue, sem,
                   semCap, buffer, inflight, cancelled, sendOrder, runLog,
                   advertised, stopped, saves, allowlist, rootDone, sessionRows, storeCalls, sink, checked, replies, run, pending,
                   contexts, mu>>

\* a plain-text prompt: HandleIncomingMessage with no pending input
enqueueJob(h, k) ==
    /\ enqueueJobAs(h, k, defaultExecutor(k))
    /\ UNCHANGED executors

\* "/codex <prompt>" and "/claude <prompt>": handleCommand
HandleExecutorPrompt(h, k, exName) ==
    /\ executors' = MapPut(executors, KeyString(k), exName)
    /\ enqueueJobAs(h, k, exName)

\* ------------------------------------------------------ message texts
\* A message text is a sequence of one-character strings, like a path.
Space == " "
TCd == <<"/", "c", "d">>
TNew == <<"/", "n", "e", "w">>
TReset == <<"/", "r", "e", "s", "e", "t">>
TBlank == <<Space>>
WithArg(cmd, arg) == cmd \o <<Space>> \o arg

\* strings.TrimSpace
RECURSIVE TrimLeft(_)
TrimLeft(t) == IF t # << >> /\ Head(t) = Space THEN TrimLeft(Tail(t)) ELSE t

RECURSIVE TrimRight(_)
TrimRight(t) ==
    IF t # << >> /\ t[Len(t)] = Space THEN TrimRight(SubSeq(t, 1, Len(t) - 1)) ELSE t

TrimSpaceText(t) == TrimRight(TrimLeft(t))

\* strings.TrimPrefix
TrimPrefix(t, p) == IF HasPrefix(t, p) THEN SubSeq(t, Len(p) + 1, Len(t)) ELSE t

\* createAndSetWorkdir up to os.MkdirAll: the target, or EmptyPath when the
\* path is empty or rejected
createWorkdirTarget(wd) == IF wd = EmptyPath THEN EmptyPath ELSE setWorkdirTarget(wd)

\* What handling a trimmed text does once TakePendingInput has returned
\* action: the workdir to set (EmptyPath: none), the pending input to set
\* ("": none), whether the session is reset, and the reply.
Outcome(wd, pend, reset, reply) ==
    [wd |-> wd, pend |-> pend, reset |-> reset, reply |-> reply]

setWorkdirOutcome(arg) ==
    IF ~IsAbs(arg) /\ PrimaryRoot = EmptyPath
    THEN Outcome(EmptyPath, "", FALSE, "project root is not configured")
    ELSE IF setWorkdirTarget(arg) = EmptyPath
    THEN Outcome(EmptyPath, "", FALSE, "workdir rejected")
    ELSE Outcome(setWorkdirTarget(arg), "", FALSE, "workdir set to")

createAndSetWorkdirOutcome(arg, mkdirOk) ==
    IF arg = EmptyPath THEN Outcome(EmptyPath, "", FALSE, "workdir cannot be empty")
    ELSE IF ~IsAbs(arg) /\ PrimaryRoot = EmptyPath
    THEN Outcome(EmptyPath, "", FALSE, "project root is not configured")
    ELSE IF createWorkdirTarget(arg) = EmptyPath
    THEN Outcome(EmptyPath, "", FALSE, "workdir rejected")
    ELSE IF ~mkdirOk THEN Outcome(EmptyPath, "", FALSE, "create workdir failed")
    ELSE Outcome(createWorkdirTarget(arg), "", FALSE, "workdir created and set")

\* handleCommand for the commands that concern the workdir and the session
handleCommandOutcome(text, mkdirOk) ==
    IF text = TNew THEN Outcome(EmptyPath, "new", FALSE, "send project directory path")
    ELSE IF HasPrefix(text, TNew \o <<Space>>)
    THEN createAndSetWorkdirOutcome(TrimSpaceText(TrimPrefix(text, TNew \o <<Space>>)), mkdirOk)
    ELSE IF text = TCd
    THEN IF PrimaryRoot = EmptyPath
         THEN Outcome(EmptyPath, "", FALSE, "project root is not configured")
         ELSE setWorkdirOutcome(PrimaryRoot)
    ELSE IF HasPrefix(text, TCd \o <<Space>>)
    THEN setWorkdirOutcome(TrimSpaceText(TrimPrefix(text, TCd \o <<Space>>)))
    ELSE IF text = TReset THEN Outcome(EmptyPath, "", TRUE, "session reset")
    ELSE Outcome(EmptyPath, "", FALSE, "unsupported command")

\* HandleIncomingMessage after TakePendingInput returned action
MessageOutcome(text, action, mkdirOk) ==
    IF action = "cd" THEN setWorkdirOutcome(text)
    ELSE IF action = "new" THEN createAndSetWorkdirOutcome(text, mkdirOk)
    ELSE handleCommandOutcome(text, mkdirOk)

\* HandleIncomingMessage: a text that is empty after trimming is ignored
HandleBlank(k, text) ==
    /\ CanStart(k)
    /\ TrimSpaceText(text) = << >>
    /\ lastReply' = [lastReply EXCEPT ![KeyString(k)] = "(none)"]
    /\ UNCHANGED <<jobs, events, execSessions, sessions, workdirs, chans,
                   sessionQueue, sem, semCap, buffer, inflight, cancelled,
                   handlers, nextJob, sendOrder, runLog, advertised, stopped,
                   saves, allowlist, rootDone, sessionRows, storeCalls, sink, checked, replies, run, pending, executors, modes,
                   contexts, mu>>

TakeKeepsSlot(m, ks) == m

\* TakePendingInput: delete(m.pending, key.String())
TakeClearsSlot(m, ks) == MapDel(m, ks)

\* HandleIncomingMessage up to the return of TakePendingInput, for a command
\* or for any text while a pending input is set
MsgTake(h, k, text) ==
    /\ handlers[h].pc = "idle"
    /\ CanStart(k)
    /\ mu = 0
    /\ TrimSpaceText(text) # << >>
    /\ PendingInput(k) # "" \/ HasPrefix(TrimSpaceText(text), <<"/">>)
    /\ pending' = TakeClearsSlot(pending, KeyString(k))
    /\ handlers' = [handlers EXCEPT ![h] =
          [IdleHandler EXCEPT !.pc = "taken", !.key = k, !.ctx = HandlerCtx(h, k),
                              !.text = TrimSpaceText(text), !.action = PendingInput(k)]]
    /\ UNCHANGED <<jobs, events, execSessions, sessions, workdirs, chans,
                   sessionQueue, sem, semCap, buffer, inflight, cancelled,
                   nextJob, sendOrder, runLog, advertised, stopped, saves,
                   allowlist, rootDone, sessionRows, storeCalls, sink, checked, replies, lastReply, run, executors, modes,
                   contexts, mu>>

ResetEveryKey(m, key) == EmptyMap

\* Manager.Reset: delete(m.workdirs, key.String()) and the same for the
\* executors, modes and pending maps
ResetEntry(m, key) == MapDel(m, KeyString(key))

\* the rest of HandleIncomingMessage: setWorkdir, createAndSetWorkdir or
\* handleCommand; mkdirOk is whether os.MkdirAll succeeds
MsgDispatch(h, mkdirOk) ==
    /\ handlers[h].pc = "taken"
    /\ mu = 0
    /\ LET k == handlers[h].key
           ks == KeyString(k)
           o == MessageOutcome(handlers[h].text, handlers[h].action, mkdirOk)
       IN /\ lastReply' = [lastReply EXCEPT ![ks] = o.reply]
          /\ IF o.wd # EmptyPath
             THEN /\ workdirs' = MapPut(workdirs, ks, o.wd)
                  /\ sessions' = UpsertSession(sessions, k, o.wd)
             ELSE /\ workdirs' = IF o.reset THEN ResetEntry(workdirs, k) ELSE workdirs
                  /\ UNCHANGED sessions
          /\ pending' = IF o.pend # "" THEN MapPut(pending, ks, o.pend)
                        ELSE IF o.reset THEN ResetEntry(pending, k) ELSE pending
          /\ executors' = IF o.reset THEN ResetEntry(executors, k) ELSE executors
          /\ modes' = IF o.reset THEN ResetEntry(modes, k) ELSE modes
    /\ handlers' = [handlers EXCEPT ![h] = IdleHandler]
    /\ UNCHANGED <<jobs, events, execSessions, chans, sessionQueue, sem, semCap,
                   buffer, inflight, cancelled, nextJob, sendOrder, runLog,
                   advertised, stopped, saves, allowlist, rootDone, sessionRows, storeCalls, sink, checked, replies, run,
                   contexts, mu>>

\* "/codex" and "/claude" alone: SetDefaultExecutor and the reply
HandleSetExecutor(k, exName) ==
    /\ CanStart(k)
    /\ PendingInput(k) = ""
    /\ executors' = MapPut(executors, KeyString(k), exName)
    /\ lastReply' = [lastReply EXCEPT ![KeyString(k)] = "default executor set to"]
    /\ UNCHANGED <<jobs, events, execSessions, sessions, workdirs, chans,
                   sessionQueue, sem, semCap, buffer, inflight, cancelled,
                   handlers, nextJob, sendOrder, runLog, advertised, stopped,
                   saves, allowlist, rootDone, sessionRows, storeCalls, sink, checked, replies, run, pending,
                   modes, contexts, mu>>

HandleResetForget(k) ==
    /\ CanStart(k)
    /\ PendingInput(k) = ""
    /\ workdirs' = ResetEntry(workdirs, k)
    /\ executors' = ResetEntry(executors, k)
    /\ modes' = ResetEntry(modes, k)
    /\ pending' = ResetEntry(pending, k)
    /\ execSessions' = {r \in execSessions :
                           ~(r.platform = k.platform /\ r.chat_id = k.chat
                             /\ r.thread_id = k.thread)}
    /\ lastReply' = [lastReply EXCEPT ![KeyString(k)] = "session reset"]
    /\ UNCHANGED <<jobs, events, sessions, chans, sessionQueue,
                   sem, semCap, buffer, inflight, cancelled, handlers, nextJob,
                   sendOrder, runLog, advertised, stopped, saves, allowlist, rootDone, sessionRows, storeCalls,
                   sink, checked, replies, run, contexts, mu>>

\* "/reset": Manager.Reset and the reply
HandleReset(k) ==
    /\ CanStart(k)
    /\ PendingInput(k) = ""
    /\ workdirs' = ResetEntry(workdirs, k)
    /\ executors' = ResetEntry(executors, k)
    /\ modes' = ResetEntry(modes, k)
    /\ pending' = ResetEntry(pending, k)
    /\ lastReply' = [lastReply EXCEPT ![KeyString(k)] = "session reset"]
    /\ UNCHANGED <<jobs, events, execSessions, sessions, chans, sessionQueue,
                   sem, semCap, buffer, inflight, cancelled, handlers, nextJob,
                   sendOrder, runLog, advertised, stopped, saves, allowlist, rootDone, sessionRows, storeCalls,
                   sink, checked, replies, run, contexts, mu>>

\* "/mode <mode>": the usage reply for anything but sandbox and full-access,
\* else Manager.SetPermissionMode and the reply
HandleMode(k, mode) ==
    /\ CanStart(k)
    /\ PendingInput(k) = ""
    /\ IF mode \notin {"sandbox", "full-access"}
       THEN /\ lastReply' = [lastReply EXCEPT ![KeyString(k)] = "usage: /mode"]
            /\ UNCHANGED <<modes, contexts>>
       ELSE /\ modes' = MapPut(modes, KeyString(k), NormalizePermissionMode(mode))
            /\ contexts' = SetSessionPermissionMode(contexts, k, mode)
            /\ lastReply' = [lastReply EXCEPT ![KeyString(k)] = "mode set to"]
    /\ UNCHANGED <<jobs, events, execSessions, sessions, workdirs, chans,
                   sessionQueue, sem, semCap, buffer, inflight, cancelled,
                   handlers, nextJob, sendOrder, runLog, advertised, stopped,
                   saves, allowlist, rootDone, sessionRows, storeCalls, sink, checked, replies, run, pending,
                   executors, mu>>

\* ---------------------------------------------------------------- dispatcher
QueueLookupMiss(ks) == FALSE

\* q, ok := d.sessionQueue[key]
QueueLookupOk(ks) == ks \in DOMAIN sessionQueue

\* no child process started
NoCommand == [executor |-> "", dir |-> EmptyPath, mode |-> "", session |-> ""]

IdleWorker == [job |-> NoJobVal, seq |-> 0, sid |-> "", err |-> FALSE,
               timedOut |-> FALSE, lines |-> 0, code |-> 0, cmd |-> NoCommand]

NewChan(ks, ctx) == [key |-> ks, buf |-> << >>, pc |-> "select", ctx |-> ctx,
                     w |-> IdleWorker]

\* Dispatcher.Enqueue, the section under d.mu
Enqueue(h) ==
    /\ handlers[h].pc = "enqueue"
    /\ LET ks == KeyString(handlers[h].job.key)
       IN IF QueueLookupOk(ks)
          THEN /\ handlers' = [handlers EXCEPT ![h].pc = "send", ![h].q = sessionQueue[ks]]
               /\ UNCHANGED <<chans, sessionQueue>>
          ELSE /\ chans' = Append(chans, NewChan(ks, handlers[h].ctx))
               /\ sessionQueue' = MapPut(sessionQueue, ks, Len(chans) + 1)
               /\ handlers' = [handlers EXCEPT ![h].pc = "send", ![h].q = Len(chans) + 1]
    /\ UNCHANGED <<jobs, events, execSessions, sessions, workdirs, sem, semCap,
                   buffer, inflight, cancelled, nextJob, sendOrder, runLog, advertised, stopped, saves, allowlist, rootDone, sessionRows, storeCalls, sink, checked, replies, lastReply, run, pending, executors, modes, contexts, mu>>

ChanHasRoomAlways(buf) == TRUE

\* a send on a buffered channel blocks while the channel holds cap(q) elements
ChanHasRoom(buf) == Len(buf) < buffer

\* Dispatcher.Enqueue: q <- job, after which Enqueue returns
EnqueueSend(h) ==
    /\ handlers[h].pc = "send"
    /\ ChanHasRoom(chans[handlers[h].q].buf)
    /\ chans' = [chans EXCEPT ![handlers[h].q].buf = Append(@, handlers[h].job)]
    /\ sendOrder' = [sendOrder EXCEPT ![KeyString(handlers[h].job.key)] =
                                      Append(@, handlers[h].job.id)]
    /\ handlers' = [handlers EXCEPT ![h].pc = "reply"]
    /\ UNCHANGED <<jobs, events, execSessions, sessions, workdirs, sessionQueue,
                   sem, semCap, buffer, inflight, cancelled, nextJob, runLog, advertised, stopped, saves, allowlist, rootDone, sessionRows, storeCalls, sink, checked, replies, lastReply, run, pending, executors, modes, contexts, mu>>

\* enqueueJob replies "job queued" and the handler returns; the transport
\* then ends the request, which cancels the request's context.
EndRequest(cs, h) ==
    [i \in 1..Len(cs) |-> IF cs[i].ctx = ReqCtx(h) THEN [cs[i] EXCEPT !.ctx = DeadCtx]
                          ELSE cs[i]]

HandlerReturn(h) ==
    /\ handlers[h].pc = "reply"
    /\ replies' = [replies EXCEPT ![handlers[h].job.id] = Send(@, handlers[h].ctx, "job queued")]
    /\ lastReply' = [lastReply EXCEPT ![KeyString(handlers[h].key)] = "job queued"]
    /\ handlers' = [handlers EXCEPT ![h] = IdleHandler]
    /\ chans' = EndRequest(chans, h)
    /\ UNCHANGED <<jobs, events, execSessions, sessions, workdirs, sessionQueue,
                   sem, semCap, buffer, inflight, cancelled, nextJob, sendOrder,
                   runLog, advertised, stopped, saves, allowlist, rootDone, sessionRows, storeCalls, sink, checked, run, pending,
                   executors, modes, contexts, mu>>

\* --------------------------------------------------- dispatcher worker loop
ChanIds == 1..Len(chans)

\* consume: case <-ctx.Done()
consumeDone(i) ==
    /\ chans[i].pc = "select"
    /\ CtxDone(chans[i].ctx)
    /\ chans' = [chans EXCEPT ![i].pc = "exited"]
    /\ UNCHANGED <<jobs, events, execSessions, sessions, workdirs, sessionQueue,
                   sem, semCap, buffer, inflight, cancelled, handlers, nextJob,
                   sendOrder, runLog, advertised, stopped, saves, allowlist, rootDone, sessionRows, storeCalls, sink, checked, replies, lastReply, run, pending, executors, modes, contexts, mu>>

ChanRecvNewest(buf) == [job |-> buf[Len(buf)], rest |-> SubSeq(buf, 1, Len(buf) - 1)]

\* a channel receive takes the oldest element
ChanRecv(buf) == [job |-> Head(buf), rest |-> Tail(buf)]

\* consume: case job := <-q
consumeRecv(i) ==
    /\ chans[i].pc = "select"
    /\ chans[i].buf # << >>
    /\ chans' = [chans EXCEPT ![i].pc = "acquire",
                              ![i].buf = ChanRecv(chans[i].buf).rest,
                              ![i].w = [IdleWorker EXCEPT !.job = ChanRecv(chans[i].buf).job]]
    /\ UNCHANGED <<jobs, events, execSessions, sessions, workdirs, sessionQueue,
                   sem, semCap, buffer, inflight, cancelled, handlers, nextJob,
                   sendOrder, runLog, advertised, stopped, saves, allowlist, rootDone, sessionRows, storeCalls, sink, checked, replies, lastReply, run, pending, executors, modes, contexts, mu>>

SemAcquireNoWait == TRUE

\* d.sem <- struct{}{} blocks while the semaphore is full
SemAcquire == sem < semCap

\* consume: d.sem <- struct{}{}; d.worker(ctx, job) is entered
consumeAcquire(i) ==
    /\ chans[i].pc = "acquire"
    /\ SemAcquire
    /\ sem' = sem + 1
    /\ chans' = [chans EXCEPT ![i].pc = "runJob"]
    /\ runLog' = [runLog EXCEPT ![chans[i].key] = Append(@, <<"start", chans[i].w.job.id>>)]
    /\ UNCHANGED <<jobs, events, execSessions, sessions, workdirs, sessionQueue,
                   semCap, buffer, inflight, cancelled, handlers, nextJob,
                   sendOrder, advertised, stopped, saves, allowlist, rootDone, sessionRows, storeCalls, sink, checked, replies, lastReply, run, pending, executors, modes, contexts, mu>>

\* consume: <-d.sem after d.worker returned
consumeRelease(i) ==
    /\ chans[i].pc = "release"
    /\ sem' = sem - 1
    /\ chans' = [chans EXCEPT ![i].pc = "select", ![i].w = IdleWorker]
    /\ UNCHANGED <<jobs, events, execSessions, sessions, workdirs, sessionQueue,
                   semCap, buffer, inflight, cancelled, handlers, nextJob,
                   sendOrder, runLog, advertised, stopped, saves, allowlist, rootDone, sessionRows, storeCalls, sink, checked, replies, lastReply, run, pending, executors, modes, contexts, mu>>

\* ------------------------------------------------------ Orchestrator.runJob
\* runCtx (context.WithCancel(ctx)) and the Runner's context (WithTimeout)
RunCtxDone(c) == CtxDone(c.ctx) \/ c.w.job.id \in cancelled
RunnerCtxDone(c) == RunCtxDone(c) \/ c.w.timedOut

\* runJob up to o.jobs.Store(job.ID, cancel)
runJobStart(i) ==
    /\ chans[i].pc = "runJob"
    /\ jobs' = UpdateJobStatus(jobs, chans[i].ctx, chans[i].w.job.id, "running")
    /\ inflight' = inflight \cup {chans[i].w.job.id}
    /\ chans' = [chans EXCEPT ![i].pc = "spawn"]
    /\ UNCHANGED <<events, execSessions, sessions, workdirs, sessionQueue, sem,
                   semCap, buffer, cancelled, handlers, nextJob, sendOrder,
                   runLog, advertised, stopped, saves, allowlist, rootDone, sessionRows, storeCalls, sink, checked, replies, lastReply, run, pending, executors, modes, contexts, mu>>

RunnerCommandNow(job) ==
    [executor |-> defaultExecutor(job.key), dir |-> Workdir(job.key),
     mode |-> PermissionMode(job.key),
     session |-> LoadSession(execSessions, RootCtx, job.executor, job)]

\* what the child is started with: o.executors[job.Executor], cmd.Dir =
\* job.Workdir, and BuildCommand's sandbox mode and resume id
RunnerCommand(job) ==
    [executor |-> job.executor, dir |-> job.workdir,
     mode |-> NormalizePermissionMode(job.mode), session |-> job.session]

\* Runner.RunJob: BuildCommand, pipes, cmd.Start; ok is whether the child
\* could be started
RunJobSpawn(i, ok) ==
    /\ chans[i].pc = "spawn"
    /\ IF ok /\ ~RunnerCtxDone(chans[i])
       THEN chans' = [chans EXCEPT ![i].pc = "child",
                                   ![i].w.cmd = RunnerCommand(chans[i].w.job)]
       ELSE chans' = [chans EXCEPT ![i].pc = "save", ![i].w.err = TRUE]
    /\ UNCHANGED <<jobs, events, execSessions, sessions, workdirs, sessionQueue,
                   sem, semCap, buffer, inflight, cancelled, handlers, nextJob,
                   sendOrder, runLog, advertised, stopped, saves, allowlist, rootDone, sessionRows, storeCalls, sink, checked, replies, lastReply, run, pending, executors, modes, contexts, mu>>

\* the Runner's timeout expires while the child runs
RunJobTimeout(i) ==
    /\ chans[i].pc = "child"
    /\ ~chans[i].w.timedOut
    /\ chans' = [chans EXCEPT ![i].w.timedOut = TRUE]
    /\ UNCHANGED <<jobs, events, execSessions, sessions, workdirs, sessionQueue,
                   sem, semCap, buffer, inflight, cancelled, handlers, nextJob,
                   sendOrder, runLog, advertised, stopped, saves, allowlist, rootDone, sessionRows, storeCalls, sink, checked, replies, lastReply, run, pending, executors, modes, contexts, mu>>

\* Runner.RunJob emit: one line read, seq drawn, persistSink.OnEvent; adv is
\* the session id HandleEvent finds in the line
RunJobEmit(i, adv) ==
    /\ chans[i].pc = "child"
    /\ chans[i].w.lines < MaxLines
    /\ LET c == chans[i]
           next == c.w.seq + 1
       IN /\ events' = AppendEvent(events, RunnerCtxDone(c),
                                   [job |-> c.w.job.id, seq |-> next, is_final |-> FALSE])
          /\ replies' = [replies EXCEPT ![c.w.job.id] =
                            IF RunnerCtxDone(c) THEN @ ELSE Append(@, "chunk")]
          /\ chans' = [chans EXCEPT ![i].w.seq = next,
                                    ![i].w.lines = @ + 1,
                                    ![i].w.sid = IF adv # "" THEN adv ELSE @]
    /\ UNCHANGED <<jobs, execSessions, sessions, workdirs, sessionQueue, sem,
                   semCap, buffer, inflight, cancelled, handlers, nextJob,
                   sendOrder, runLog, advertised, stopped, saves, allowlist, rootDone, sessionRows, storeCalls, sink, checked,
                   lastReply, run, pending, executors, modes, contexts, mu>>

\* cmd.Wait returns: the child exited with code, or was killed because the
\* Runner's context ended
RunJobWait(i, code) ==
    /\ chans[i].pc = "child"
    /\ chans' = [chans EXCEPT ![i].pc = "final",
                              ![i].w.code = code,
                              ![i].w.err = (code # 0 \/ RunnerCtxDone(chans[i]))]
    /\ UNCHANGED <<jobs, events, execSessions, sessions, workdirs, sessionQueue,
                   sem, semCap, buffer, inflight, cancelled, handlers, nextJob,
                   sendOrder, runLog, advertised, stopped, saves, allowlist, rootDone, sessionRows, storeCalls, sink, checked, replies, lastReply, run, pending, executors, modes, contexts, mu>>

\* Runner.RunJob: the synthetic terminal event, then RunJob returns
RunJobFinal(i) ==
    /\ chans[i].pc = "final"
    /\ LET c == chans[i]
           next == c.w.seq + 1
       IN /\ events' = AppendEvent(events, RunnerCtxDone(c),
                                   [job |-> c.w.job.id, seq |-> next, is_final |-> TRUE])
          /\ chans' = [chans EXCEPT ![i].w.seq = next, ![i].pc = "save"]
    /\ UNCHANGED <<jobs, execSessions, sessions, workdirs, sessionQueue, sem,
                   semCap, buffer, inflight, cancelled, handlers, nextJob,
                   sendOrder, runLog, advertised, stopped, saves, allowlist, rootDone, sessionRows, storeCalls, sink, checked, replies, lastReply, run, pending, executors, modes, contexts, mu>>

\* runJob after RunJob returned: Flush, SaveSession of the captured id
runJobSave(i) ==
    /\ chans[i].pc = "save"
    /\ LET c == chans[i]
       IN execSessions' = IF c.w.sid # ""
                          THEN SaveSession(execSessions, c.ctx, c.w.job.executor,
                                           c.w.job, c.w.sid)
                          ELSE execSessions
    /\ chans' = [chans EXCEPT ![i].pc = "finish"]
    /\ advertised' = [advertised EXCEPT ![chans[i].w.job.id] = chans[i].w.sid]
    /\ UNCHANGED <<jobs, events, sessions, workdirs, sessionQueue, sem, semCap,
                   buffer, inflight, cancelled, handlers, nextJob, sendOrder,
                   runLog, stopped, saves, allowlist, rootDone, sessionRows, storeCalls, sink, checked, replies, lastReply, run, pending, executors, modes, contexts, mu>>

FinalStatusStopped(err, wasCancelled) ==
    IF wasCancelled THEN "stopped" ELSE IF err THEN "failed" ELSE "done"

\* runJob: JobFailed when RunJob returned an error, else JobDone
FinalStatus(err, wasCancelled) == IF err THEN "failed" ELSE "done"

\* runJob: UpdateJobStatus(done | failed) and the final reply
runJobFinish(i) ==
    /\ chans[i].pc = "finish"
    /\ jobs' = UpdateJobStatus(jobs, chans[i].ctx, chans[i].w.job.id,
                               FinalStatus(chans[i].w.err,
                                           chans[i].w.job.id \in cancelled))
    /\ replies' = [replies EXCEPT ![chans[i].w.job.id] =
                      Send(@, chans[i].ctx, IF chans[i].w.err THEN "job failed" ELSE "job done")]
    /\ chans' = [chans EXCEPT ![i].pc = "defer"]
    /\ UNCHANGED <<events, execSessions, sessions, workdirs, sessionQueue, sem,
                   semCap, buffer, inflight, cancelled, handlers, nextJob,
                   sendOrder, runLog, advertised, stopped, saves, allowlist, rootDone, sessionRows, storeCalls, sink, checked,
                   lastReply, run, pending, executors, modes, contexts, mu>>

\* runJob's deferred o.jobs.Delete(job.ID); cancel(); runJob returns
runJobReturn(i) ==
    /\ chans[i].pc = "defer"
    /\ inflight' = inflight \ {chans[i].w.job.id}
    /\ chans' = [chans EXCEPT ![i].pc = "release"]
    /\ runLog' = [runLog EXCEPT ![chans[i].key] = Append(@, <<"end", chans[i].w.job.id>>)]
    /\ UNCHANGED <<jobs, events, execSessions, sessions, workdirs, sessionQueue,
                   sem, semCap, buffer, cancelled, handlers, nextJob, sendOrder,
                   advertised, stopped, saves, allowlist, rootDone, sessionRows, storeCalls, sink, checked, replies, lastReply, run, pending, executors, modes, contexts, mu>>

\* ------------------------------------------- Manager.TakePendingInput
ManagerFrame ==
    UNCHANGED <<jobs, events, execSessions, chans, sessionQueue, sem, semCap,
                buffer, inflight, cancelled, nextJob, sendOrder, runLog,
                advertised, stopped, saves, allowlist, rootDone, sessionRows, storeCalls, sink, checked, replies, run>>

MuFreeAlways(m) == TRUE

\* m.mu.Lock() returns only while no one holds the mutex
MuFree(m) == m = 0

\* handleCommand "/new": SetPendingInput under the mutex, then the reply
SetPendingInput(k, action) ==
    /\ MuFree(mu)
    /\ pending' = MapPut(pending, KeyString(k), action)
    /\ lastReply' = [lastReply EXCEPT ![KeyString(k)] = "send project directory path"]
    /\ UNCHANGED <<handlers, sessions, workdirs, executors, modes, contexts, mu>>
    /\ ManagerFrame

\* TakePendingInput: m.mu.Lock()
TakeLock(h, k) ==
    /\ handlers[h].pc = "idle"
    /\ MuFree(mu)
    /\ mu' = h
    /\ handlers' = [handlers EXCEPT ![h] = [IdleHandler EXCEPT !.pc = "locked", !.key = k]]
    /\ UNCHANGED <<pending, lastReply, sessions, workdirs, executors, modes, contexts>>
    /\ ManagerFrame

\* TakePendingInput: action := m.pending[key.String()]
TakeRead(h) ==
    /\ handlers[h].pc = "locked"
    /\ handlers' = [handlers EXCEPT ![h].pc = "read",
                                    ![h].action = PendingInput(handlers[h].key)]
    /\ UNCHANGED <<pending, lastReply, sessions, workdirs, executors, modes,
                   contexts, mu>>
    /\ ManagerFrame

\* TakePendingInput: delete(m.pending, key.String())
TakeDelete(h) ==
    /\ handlers[h].pc = "read"
    /\ pending' = TakeClearsSlot(pending, KeyString(handlers[h].key))
    /\ handlers' = [handlers EXCEPT ![h].pc = "deleted"]
    /\ UNCHANGED <<lastReply, sessions, workdirs, executors, modes, contexts, mu>>
    /\ ManagerFrame

\* TakePendingInput: the deferred m.mu.Unlock(), return action
TakeUnlock(h) ==
    /\ handlers[h].pc = "deleted"
    /\ mu' = 0
    /\ handlers' = [handlers EXCEPT ![h].pc = "took"]
    /\ UNCHANGED <<pending, lastReply, sessions, workdirs, executors, modes, contexts>>
    /\ ManagerFrame

\* ------------------------------------------------------- Manager methods
\* Manager.SetWorkdir: the cache first, then Store.UpsertSession, which fails
\* on a context that has ended
ManagerSetWorkdir(k, wd, ctx) ==
    /\ MuFree(mu)
    /\ workdirs' = MapPut(workdirs, KeyString(k), wd)
    /\ sessions' = IF CtxDone(ctx) THEN sessions ELSE UpsertSession(sessions, k, wd)
    /\ UNCHANGED <<handlers, pending, lastReply, executors, modes, contexts, mu>>
    /\ ManagerFrame

\* Manager.Workdir: a miss that finds a workdir in the Store fills the cache
ManagerWorkdir(k) ==
    /\ MuFree(mu)
    /\ workdirs' = WorkdirCache(k)
    /\ UNCHANGED <<handlers, pending, lastReply, sessions, executors, modes,
                   contexts, mu>>
    /\ ManagerFrame

\* Manager.SetDefaultExecutor
ManagerSetDefaultExecutor(k, exName) ==
    /\ MuFree(mu)
    /\ executors' = MapPut(executors, KeyString(k), exName)
    /\ UNCHANGED <<handlers, pending, lastReply, sessions, workdirs, modes,
                   contexts, mu>>
    /\ ManagerFrame

\* Manager.SetPermissionMode: the cache first, then
\* Store.SetSessionPermissionMode
ManagerSetPermissionMode(k, mode, ctx) ==
    /\ MuFree(mu)
    /\ modes' = MapPut(modes, KeyString(k), NormalizePermissionMode(mode))
    /\ contexts' = IF CtxDone(ctx) THEN contexts
                   ELSE SetSessionPermissionMode(contexts, k, mode)
    /\ UNCHANGED <<handlers, pending, lastReply, sessions, workdirs, executors, mu>>
    /\ ManagerFrame

\* Manager.PermissionMode: a miss fills the cache from the Store
ManagerPermissionMode(k) ==
    /\ MuFree(mu)
    /\ modes' = PermissionModeCache(k)
    /\ UNCHANGED <<handlers, pending, lastReply, sessions, workdirs, executors,
                   contexts, mu>>
    /\ ManagerFrame

\* session.NewManager over the Store that is already open: four empty maps
NewManager ==
    /\ MuFree(mu)
    /\ workdirs' = EmptyMap
    /\ executors' = EmptyMap
    /\ modes' = EmptyMap
    /\ pending' = EmptyMap
    /\ UNCHANGED <<handlers, lastReply, sessions, contexts, mu>>
    /\ ManagerFrame

\* Manager.Reset
ManagerReset(k) ==
    /\ MuFree(mu)
    /\ workdirs' = ResetEntry(workdirs, k)
    /\ executors' = ResetEntry(executors, k)
    /\ modes' = ResetEntry(modes, k)
    /\ pending' = ResetEntry(pending, k)
    /\ UNCHANGED <<handlers, lastReply, sessions, contexts, mu>>
    /\ ManagerFrame

\* ------------------------------------------------------------ Runner.RunJob
RunnerFrame ==
    UNCHANGED <<jobs, execSessions, sessions, workdirs, chans, sessionQueue,
                sem, semCap, buffer, inflight, cancelled, handlers, nextJob,
                sendOrder, runLog, advertised, stopped, saves, allowlist, rootDone, sessionRows, storeCalls, sink, checked,
                replies, lastReply, pending, executors, modes, contexts, mu>>

\* persistSink.OnEvent: the event reaches the sink and Store.AppendEvent runs
\* with the Runner's context
OnEvent(r, ev) ==
    /\ events' = AppendEvent(events, r.ctxDone,
                             [job |-> r.job, seq |-> ev.seq, is_final |-> ev.is_final])

\* BuildCommand, the pipes, cmd.Start, wg.Add(2) and the two go emit
RunnerStart(j, ok) ==
    /\ run.pc = "idle"
    /\ run' = IF ok
              THEN [run EXCEPT !.pc = "started", !.job = j, !.spawned = TRUE,
                               !.child = "running",
                               !.emit = [s \in Streams |-> [pc |-> "scan", next |-> 0]]]
              ELSE [run EXCEPT !.pc = "returned", !.job = j, !.err = TRUE]
    /\ UNCHANGED events
    /\ RunnerFrame

\* the child writes one line to a pipe
ChildWrite(s) ==
    /\ run.child = "running"
    /\ run.written[s] < MaxChildLines
    /\ ~run.long[s]
    /\ run' = [run EXCEPT !.pipe[s] = @ + 1, !.written[s] = @ + 1]
    /\ UNCHANGED events
    /\ RunnerFrame

\* the child writes a line longer than the scanner's 1 MiB limit to a pipe;
\* what it writes to that pipe afterwards is behind the line and never read
ChildWriteLong(s) ==
    /\ run.child = "running"
    /\ run.written[s] < MaxChildLines
    /\ ~run.long[s]
    /\ run' = [run EXCEPT !.long[s] = TRUE, !.written[s] = @ + 1]
    /\ UNCHANGED events
    /\ RunnerFrame

\* the child exits with code, or is killed because the context has ended
ChildExit(code) ==
    /\ run.child = "running"
    /\ run' = [run EXCEPT !.child = "exited",
                          !.code = IF run.ctxDone THEN 1 ELSE code]
    /\ UNCHANGED events
    /\ RunnerFrame

\* the context of RunJob ends: the timeout fires or /stop cancels the job
RunnerCancel ==
    /\ run.pc \in {"started", "waited"}
    /\ ~run.ctxDone
    /\ run' = [run EXCEPT !.ctxDone = TRUE]
    /\ UNCHANGED events
    /\ RunnerFrame

\* emit: scanner.Scan returns a line and atomic.AddInt64 draws its seq
emitScan(s) ==
    /\ run.emit[s].pc = "scan"
    /\ run.pipe[s] > 0
    /\ ~run.closed
    /\ run' = [run EXCEPT !.pipe[s] = @ - 1, !.seq = @ + 1,
                          !.emit[s] = [pc |-> "event", next |-> run.seq + 1]]
    /\ UNCHANGED events
    /\ RunnerFrame

\* emit: sink.OnEvent with the line and the seq drawn for it
emitOnEvent(s) ==
    /\ run.emit[s].pc = "event"
    /\ LET ev == [seq |-> run.emit[s].next, stream |-> s, is_final |-> FALSE,
                  exit_code |-> 0]
       IN /\ OnEvent(run, ev)
          /\ run' = [run EXCEPT !.delivered = Append(@, ev),
                                !.emit[s] = [pc |-> "scan", next |-> 0]]
    /\ RunnerFrame

\* emit: scanner.Scan returns false, at end of file or because cmd.Wait has
\* closed the pipe; wg.Done
emitReturn(s) ==
    /\ run.emit[s].pc = "scan"
    /\ \/ run.child = "exited" /\ run.pipe[s] = 0 /\ ~run.long[s]
       \/ run.closed
    /\ run' = [run EXCEPT !.emit[s] = [pc |-> "done", next |-> 0]]
    /\ UNCHANGED events
    /\ RunnerFrame

\* emit: scanner.Scan meets the overlong line and returns false with
\* bufio.ErrTooLong; the loop ends, scanner.Err() is not read, wg.Done
emitTooLong(s) ==
    /\ run.emit[s].pc = "scan"
    /\ run.pipe[s] = 0
    /\ run.long[s]
    /\ ~run.closed
    /\ run' = [run EXCEPT !.emit[s] = [pc |-> "done", next |-> 0],
                          !.tooLong[s] = TRUE]
    /\ UNCHANGED events
    /\ RunnerFrame

\* cmd.Wait returns once the child has exited, and closes both pipes
cmdWait ==
    /\ run.pc = "started"
    /\ run.child = "exited"
    /\ run' = [run EXCEPT !.pc = "waited", !.closed = TRUE]
    /\ UNCHANGED events
    /\ RunnerFrame

ReadersDoneNoWait(r) == TRUE

\* wg.Wait
ReadersDone(r) == \A s \in Streams : r.emit[s].pc = "done"

\* the synthetic terminal event, then RunJob returns waitErr
RunnerFinal ==
    /\ run.pc = "waited"
    /\ ReadersDone(run)
    /\ LET ev == [seq |-> run.seq + 1, stream |-> "meta", is_final |-> TRUE,
                  exit_code |-> IF run.code # 0 THEN 1 ELSE 0]
       IN /\ OnEvent(run, ev)
          /\ run' = [run EXCEPT !.pc = "returned", !.seq = @ + 1,
                                !.delivered = Append(@, ev),
                                !.err = (run.code # 0)]
    /\ RunnerFrame

\* ------------------------------------------------- persistSink and Batcher
\* One job's output path: the Runner hands an event to persistSink.OnEvent,
\* which applies the adapter's HandleEvent, Store.AppendEvent and
\* Batcher.OnEvent; the Batcher calls Transport.Send once per piece.
SinkFrame ==
    UNCHANGED <<jobs, execSessions, sessions, workdirs, chans, sessionQueue,
                sem, semCap, buffer, inflight, cancelled, handlers, nextJob,
                sendOrder, runLog, advertised, stopped, saves, allowlist, rootDone, sessionRows, storeCalls,
                checked, replies, lastReply, run, pending, executors, modes,
                contexts, mu>>

\* the job whose output is followed: the first id drawn
SinkJob == NoJob + 1
Newline == "\n"

\* stream.NewBatcher: a maxChunk that is not positive becomes 3500
NewBatcherMaxChunk(n) == IF n <= 0 THEN 3500 ELSE n

\* strings.TrimSpace on a line: the newline the Runner appended goes
TrimLine(c) ==
    IF c # << >> /\ c[Len(c)] = Newline THEN SubSeq(c, 1, Len(c) - 1) ELSE c

\* the parsers end a text that is not empty with a newline
WithNewline(t) ==
    IF t # << >> /\ t[Len(t)] # Newline THEN Append(t, Newline) ELSE t

\* parseCodexJSONEvent / parseClaudeJSONEvent. A JSON line is written as "{",
\* one character for the kind of event and the text it carries: "m" an agent
\* message or assistant text, "x" a command_execution item or a tool_use
\* block, any other character a control frame without text.
parseJSONEvent(chunk) ==
    LET line == TrimLine(chunk)
    IN IF line = << >> \/ line[1] # "{"
       THEN [ok |-> FALSE, text |-> << >>, format |-> ""]
       ELSE IF Len(line) >= 2 /\ line[2] = "m"
       THEN [ok |-> TRUE, text |-> WithNewline(SubSeq(line, 3, Len(line))),
             format |-> ""]
       ELSE IF Len(line) >= 2 /\ line[2] = "x"
       THEN [ok |-> TRUE, text |-> WithNewline(SubSeq(line, 3, Len(line))),
             format |-> "html"]
       ELSE [ok |-> TRUE, text |-> << >>, format |-> ""]

\* CodexExecutor.HandleEvent / ClaudeExecutor.HandleEvent: the event after
\* the adapter rewrote it; Claude passes stderr and meta events through
HandleEvent(adapter, ev) ==
    IF adapter = "claude" /\ ev.stream # "stdout" THEN ev
    ELSE LET p == parseJSONEvent(ev.chunk)
         IN IF p.ok THEN [ev EXCEPT !.chunk = p.text, !.format = p.format]
            ELSE [ev EXCEPT !.chunk = << >>]

emitStopsOnError(err) == ~err

\* Runner.RunJob emit: _ = sink.OnEvent(...), the loop goes on
emitKeepsReading(err) == TRUE

\* persistSink.OnEvent returns err to the Runner
OnEventReturn(s, err) ==
    [s EXCEPT !.pc = IF s.ev.is_final THEN "returned" ELSE "read",
              !.err = err, !.msg = << >>,
              !.reading = s.reading /\ emitKeepsReading(err)]

\* runJob: NewBatcher, the persistSink, Runner.RunJob starts the child
SinkStart(adapter, n) ==
    /\ sink.pc = "idle"
    /\ sink' = [IdleSink EXCEPT !.pc = "read", !.adapter = adapter,
                                !.maxChunk = NewBatcherMaxChunk(n),
                                !.reading = TRUE]
    /\ UNCHANGED events
    /\ SinkFrame

\* emit reads a line and calls persistSink.OnEvent, whose first step is the
\* adapter's HandleEvent on &ev
SinkOnEvent(line, stream) ==
    /\ sink.pc = "read"
    /\ sink.reading
    /\ sink.seq < MaxEvents
    /\ LET ev == [seq |-> sink.seq + 1, stream |-> stream,
                  chunk |-> Append(line, Newline), is_final |-> FALSE,
                  format |-> ""]
       IN sink' = [sink EXCEPT !.seq = @ + 1, !.pc = "append",
                               !.ev = HandleEvent(sink.adapter, ev),
                               !.handled = Append(@, HandleEvent(sink.adapter, ev))]
    /\ UNCHANGED events
    /\ SinkFrame

\* cmd.Wait and wg.Wait have returned: the terminal event enters OnEvent
SinkTerminal(code) ==
    /\ sink.pc = "read"
    /\ LET ev == [seq |-> sink.seq + 1, stream |-> "meta", chunk |-> << >>,
                  is_final |-> TRUE, format |-> ""]
       IN sink' = [sink EXCEPT !.seq = @ + 1, !.pc = "append",
                               !.code = IF sink.ctxDone THEN 1 ELSE code,
                               !.ev = HandleEvent(sink.adapter, ev),
                               !.handled = Append(@, HandleEvent(sink.adapter, ev))]
    /\ UNCHANGED events
    /\ SinkFrame

AfterAppendAlways(ok) == "batch"

\* persistSink.OnEvent: if err := p.store.AppendEvent(ctx, ev); err != nil
\* { return err }
AfterAppend(ok) == IF ok THEN "batch" ELSE "return"

\* persistSink.OnEvent: Store.AppendEvent of the rewritten event
SinkAppend ==
    /\ sink.pc = "append"
    /\ events' = AppendEvent(events, sink.ctxDone,
                             [job |-> SinkJob, seq |-> sink.ev.seq,
                              is_final |-> sink.ev.is_final])
    /\ sink' = IF AfterAppend(~sink.ctxDone) = "batch"
               THEN [sink EXCEPT !.pc = "batch"]
               ELSE OnEventReturn(sink, TRUE)
    /\ SinkFrame

\* Batcher.OnEvent: an empty chunk returns nil, else sendLocked(ev.Chunk)
BatcherOnEvent ==
    /\ sink.pc = "batch"
    /\ sink' = IF sink.ev.chunk = << >> THEN OnEventReturn(sink, FALSE)
               ELSE [sink EXCEPT !.pc = "send", !.msg = sink.ev.chunk]
    /\ UNCHANGED events
    /\ SinkFrame

PieceWhole(msg, m) == msg

\* sendLocked: the text of the next Send, msg or msg[:maxChunk]
Piece(msg, m) == IF m <= 0 \/ Len(msg) <= m THEN msg ELSE SubSeq(msg, 1, m)

\* sendLocked: msg = msg[maxChunk:]
Rest(msg, m) ==
    IF m <= 0 \/ Len(msg) <= m THEN << >> ELSE SubSeq(msg, m + 1, Len(msg))

\* sendLocked: OutboundMessage{SessionKey: b.key, Text: msg}, Format is not set
OutboundFormat(ev) == ""

\* sendLocked: one Transport.Send; ok is whether the network call succeeds.
\* A failing Send ends sendLocked, the last Send's result is returned.
SinkSend(ok) ==
    /\ sink.pc = "send"
    /\ LET sok == ok /\ ~sink.ctxDone
           m == [kind |-> "chunk", seq |-> sink.ev.seq,
                 text |-> Piece(sink.msg, sink.maxChunk),
                 format |-> OutboundFormat(sink.ev), ok |-> sok]
           rest == Rest(sink.msg, sink.maxChunk)
           s1 == [sink EXCEPT !.sent = Append(@, m), !.msg = rest]
       IN sink' = IF ~sok THEN OnEventReturn(s1, TRUE)
                  ELSE IF rest = << >> THEN OnEventReturn(s1, FALSE)
                  ELSE s1
    /\ UNCHANGED events
    /\ SinkFrame

\* the Runner's context ends: the timeout fires or /stop cancels the job
SinkCancel ==
    /\ sink.pc \in {"read", "append", "batch", "send"}
    /\ ~sink.ctxDone
    /\ sink' = [sink EXCEPT !.ctxDone = TRUE]
    /\ UNCHANGED events
    /\ SinkFrame

RunJobErrOrSinkErr(s) == s.code # 0 \/ s.err

\* Runner.RunJob returns waitErr, whatever sink.OnEvent returned
RunJobErr(s) == s.code # 0

TDone == <<"d", "o", "n", "e">>
TFailed == <<"f", "a", "i", "l", "e", "d">>

\* runJob after RunJob returned: the status and o.reply, with runJob's own
\* context, which is live; ok is whether the network call succeeds
SinkFinish(ok) ==
    /\ sink.pc = "returned"
    /\ LET err == RunJobErr(sink)
           m == [kind |-> "reply", seq |-> 0,
                 text |-> IF err THEN TFailed ELSE TDone, format |-> "",
                 ok |-> ok]
       IN sink' = [sink EXCEPT !.pc = "done", !.sent = Append(@, m),
                               !.status = FinalStatus(err, FALSE)]
    /\ UNCHANGED events
    /\ SinkFrame

\* -------------------------------------------------------- security.Policy
\* security.New(allowlist, cfg) followed by ValidateWorkdir(workdir)
PolicyValidateWorkdir(cfg, workdir) ==
    /\ Len(checked) < MaxChecks
    /\ checked' = Append(checked, [roots |-> CleanRoots(cfg), workdir |-> workdir,
                                   ok |-> ValidateWorkdirIn(CleanRoots(cfg), workdir)])
    /\ UNCHANGED <<jobs, events, execSessions, sessions, workdirs, chans,
                   sessionQueue, sem, semCap, buffer, inflight, cancelled,
                   handlers, nextJob, sendOrder, runLog, advertised, stopped,
                   saves, allowlist, rootDone, sessionRows, storeCalls, sink, replies, lastReply, run, pending,
                   executors, modes, contexts, mu>>

\* ------------------------------------------------------------ specification
\* a database left by an earlier run in which every session has run "/cd"
InitWithWorkdirs ==
    /\ jobs = EmptyMap
    /\ events = [j \in JobIds |-> << >>]
    /\ execSessions = {}
    /\ sessions = [ks \in KeyStrings |-> PRoot]
    /\ contexts = EmptyMap
    /\ InitOrchestrator

\* the sessions that have sent a prompt or had a command answered so far
ActiveKeys ==
    {jobs[j].key : j \in DOMAIN jobs}
    \cup {k \in Keys : lastReply[KeyString(k)] # "" \/ PendingInput(k) # ""}
    \cup {handlers[h].key : h \in {x \in HandlerIds : handlers[x].pc # "idle"}}

Producer(H, maxKeys) ==
    \/ \E h \in H, k \in Keys :
          /\ Cardinality(ActiveKeys \cup {k}) <= maxKeys
          /\ enqueueJob(h, k)
    \/ \E h \in H : Enqueue(h)
    \/ \E h \in H : EnqueueSend(h)
    \/ \E h \in H : HandlerReturn(h)

Consumer ==
    \/ \E i \in ChanIds : consumeDone(i)
    \/ \E i \in ChanIds : consumeRecv(i)
    \/ \E i \in ChanIds : consumeAcquire(i)
    \/ \E i \in ChanIds : consumeRelease(i)

runJob(oks, advs, codes) ==
    \/ \E i \in ChanIds : runJobStart(i)
    \/ \E i \in ChanIds, ok \in oks : RunJobSpawn(i, ok)
    \/ \E i \in ChanIds, adv \in advs : RunJobEmit(i, adv)
    \/ \E i \in ChanIds, code \in codes : RunJobWait(i, code)
    \/ \E i \in ChanIds : RunJobFinal(i)
    \/ \E i \in ChanIds : runJobSave(i)
    \/ \E i \in ChanIds : runJobFinish(i)
    \/ \E i \in ChanIds : runJobReturn(i)

\* the job lifecycle: prompts, /stop, timeouts, failing and succeeding children
Next ==
    \/ Producer({1}, MaxSessions)
    \/ Consumer
    \/ runJob(BOOLEAN, Sids \cup {""}, {0, 1})
    \/ \E i \in ChanIds : RunJobTimeout(i)
    \/ \E k \in Keys, id \in JobIds :
          /\ Cardinality(ActiveKeys \cup {k}) <= MaxSessions
          /\ HandleStop(k, id)

ExitCodes == {0, 1, 2}

\* "/codex <prompt>" and "/claude <prompt>" jobs whose child starts, may
\* print a line and exits with any of the codes
NextExit ==
    \/ \E k \in Keys, exName \in {"codex", "claude"} :
          /\ Cardinality(ActiveKeys \cup {k}) <= MaxSessions
          /\ HandleExecutorPrompt(1, k, exName)
    \/ Enqueue(1)
    \/ EnqueueSend(1)
    \/ HandlerReturn(1)
    \/ Consumer
    \/ runJob({TRUE}, {""}, ExitCodes)

\* NewDispatcher(maxConcurrent, perSessionBuffer, o.runJob)
InitLifecycle ==
    /\ InitWithWorkdirs
    /\ semCap = MaxConcurrentOpt
    /\ buffer = MaxBufferOpt

Spec == InitLifecycle /\ [][Next]_vars

\* the dispatcher under concurrent handlers, with children that run to the end
NextDispatch ==
    \/ Producer(HandlerIds, Cardinality(Keys))
    \/ Consumer
    \/ runJob({TRUE}, {""}, {0})

InitDispatch ==
    /\ InitWithWorkdirs
    /\ semCap \in 1..MaxConcurrentOpt
    /\ buffer \in 1..MaxBufferOpt

SpecExit == InitLifecycle /\ [][NextExit]_vars

SpecDispatch == InitDispatch /\ [][NextDispatch]_vars

\* SaveSession called on an adapter, as the executor tests do
KTgChat2 == [platform |-> "telegram", chat |-> <<"2">>, thread |-> << >>]
KTgThread == [platform |-> "telegram", chat |-> <<"1">>, thread |-> <<"7">>]
SaveKeys == {KTg, KWa, KTgChat2, KTgThread}
SaveWorkdirs == {PRoot, PApp}
AdapterNames == {"codex", "claude"}

AdapterSaveSession(name, key, wd, sid) ==
    /\ Len(saves) < MaxSaves
    /\ execSessions' = SaveSession(execSessions, RootCtx, name,
                                   [key |-> key, workdir |-> wd], sid)
    /\ saves' = Append(saves, [executor |-> name, key |-> key, workdir |-> wd,
                               sid |-> sid])
    /\ UNCHANGED <<jobs, events, sessions, workdirs, chans, sessionQueue, sem,
                   semCap, buffer, inflight, cancelled, handlers, nextJob,
                   sendOrder, runLog, advertised, stopped, allowlist, rootDone, sessionRows, storeCalls, sink, checked, replies, lastReply, run, pending, executors, modes, contexts, mu>>

NextSessions ==
    \E name \in AdapterNames, key \in SaveKeys, wd \in SaveWorkdirs,
       sid \in Sids \cup {Blank} : AdapterSaveSession(name, key, wd, sid)

SpecSessions == Init /\ [][NextSessions]_vars

\* two sessions that start without a workdir: prompts with and without an
\* executor prefix, "/codex" and "/claude" alone, "/cd <path>" and "/reset";
\* accepted jobs wait in their queues
NextPrompts ==
    \/ \E k \in Keys, exName \in AdapterNames : HandleExecutorPrompt(1, k, exName)
    \/ \E k \in Keys, exName \in AdapterNames : HandleSetExecutor(k, exName)
    \/ \E k \in Keys : HandleCd(k, PApp)
    \/ \E k \in Keys : HandleReset(k)
    \/ Producer({1}, Cardinality(Keys))

SpecPrompts == Init /\ [][NextPrompts]_vars

\* arguments of "/cd <path>"; "/cd" alone is the primary root
CdArgs == {PRoot, PApp, PEvil, PEtc, PEscape, PRelApp, PRelEscape, PDotApp}

\* "/cd" commands with every kind of path, prompts and the jobs they start
NextWorkdir ==
    \/ \E k \in Keys, arg \in CdArgs :
          /\ Cardinality(ActiveKeys \cup {k}) <= MaxSessions
          /\ HandleCd(k, arg)
    \/ Producer({1}, MaxSessions)
    \/ Consumer
    \/ runJob({TRUE}, {""}, {0})

SpecWorkdir == Init /\ [][NextWorkdir]_vars

\* a database written under another project root, and an allowlist that may
\* leave out an executor the orchestrator knows
InitReject ==
    /\ jobs = EmptyMap
    /\ events = [j \in JobIds |-> << >>]
    /\ execSessions = {}
    /\ contexts = EmptyMap
    /\ sessions = (KeyString(KTg) :> PEtc) @@ (KeyString(KWa) :> PRoot)
    /\ workdirs = EmptyMap
    /\ chans = << >>
    /\ sessionQueue = EmptyMap
    /\ sem = 0
    /\ inflight = {}
    /\ cancelled = {}
    /\ handlers = [h \in HandlerIds |-> IdleHandler]
    /\ nextJob = 0
    /\ sendOrder = [ks \in KeyStrings |-> << >>]
    /\ runLog = [ks \in KeyStrings |-> << >>]
    /\ advertised = [j \in JobIds |-> ""]
    /\ stopped = {}
    /\ saves = << >>
    /\ replies = [j \in JobIds |-> << >>]
    /\ lastReply = [ks \in KeyStrings |-> ""]
    /\ run = IdleRun
    /\ rootDone = FALSE
    /\ sessionRows = {}
    /\ storeCalls = NoStoreCalls
    /\ sink = IdleSink
    /\ checked = << >>
    /\ pending = EmptyMap
    /\ executors = EmptyMap
    /\ modes = EmptyMap
    /\ mu = 0
    /\ allowlist \in {{"codex", "claude"}, {"codex"}}
    /\ semCap = MaxConcurrentOpt
    /\ buffer = MaxBufferOpt

\* prompts with and without an executor prefix, and the jobs they start
NextReject ==
    \/ \E k \in Keys, exName \in AdapterNames : HandleExecutorPrompt(1, k, exName)
    \/ Producer({1}, Cardinality(Keys))
    \/ Consumer
    \/ runJob({TRUE}, {""}, {0})

SpecReject == InitReject /\ [][NextReject]_vars

\* the paths users send: below the root, beside it, leaving it through "..",
\* absolute and relative
PathTexts == {PApp, PEvil, PEscape, PRelApp, PRelEscape}

\* the texts of incoming messages
Texts ==
    {TCd, TNew, TReset, <<Space>> \o PApp \o <<Space>>}
    \cup PathTexts
    \cup {WithArg(TCd, p) : p \in PathTexts}
    \cup {WithArg(TNew, p) : p \in PathTexts}

BlankTexts == {<< >>, TBlank}

\* commands, pending paths and prompts arriving one after the other, in any
\* order
NextCommands ==
    \/ \E k \in Keys, text \in Texts :
          /\ Cardinality(ActiveKeys \cup {k}) <= MaxSessions
          /\ MsgTake(1, k, text)
    \/ \E mkdirOk \in BOOLEAN : MsgDispatch(1, mkdirOk)
    \/ \E k \in Keys, text \in BlankTexts :
          /\ Cardinality(ActiveKeys \cup {k}) <= MaxSessions
          /\ HandleBlank(k, text)
    \/ Producer({1}, MaxSessions)

SpecCommands == Init /\ [][NextCommands]_vars

\* One call of Runner.RunJob, for any job and any timing of the child, the
\* readers and the context.
NextRunner ==
    \/ \E j \in JobIds, ok \in BOOLEAN : RunnerStart(j, ok)
    \/ \E s \in Streams : ChildWrite(s)
    \/ \E code \in {0, 1} : ChildExit(code)
    \/ RunnerCancel
    \/ \E s \in Streams : emitScan(s)
    \/ \E s \in Streams : emitOnEvent(s)
    \/ \E s \in Streams : emitReturn(s)
    \/ cmdWait
    \/ RunnerFinal

SpecRunner == Init /\ [][NextRunner]_vars

\* plain text, an agent message, a command execution and a control frame
SinkLines == {<<"a", "b">>, <<"{", "m", "a", "b">>, <<"{", "x", "c">>, <<"{", "s">>}

\* one job's output path for either adapter, any max_chunk_bytes, sends that
\* may fail and a context that may end
NextSink ==
    \/ \E adapter \in {"codex", "claude"}, n \in 0..MaxChunkOpt : SinkStart(adapter, n)
    \/ \E line \in SinkLines, stream \in Streams : SinkOnEvent(line, stream)
    \/ \E code \in {0, 1} : SinkTerminal(code)
    \/ SinkAppend
    \/ BatcherOnEvent
    \/ \E ok \in BOOLEAN : SinkSend(ok)
    \/ SinkCancel
    \/ \E ok \in BOOLEAN : SinkFinish(ok)

SpecSink == Init /\ [][NextSink]_vars

PSlash == <<Sep>>
RootConfigs == {<<PRoot>>, <<PSlash>>, <<EmptyPath, PRoot>>, <<PRoot, PEtc>>,
                <<PRoot \o <<Sep>> >>, << >>}
PolicyPaths == {EmptyPath, PSlash, PRoot, PApp, PEvil, PEtc, PEscape, PDotApp, PRelApp}

\* policies built over any configured roots, asked about any path
NextPolicy ==
    \E cfg \in RootConfigs, workdir \in PolicyPaths : PolicyValidateWorkdir(cfg, workdir)

SpecPolicy == Init /\ [][NextPolicy]_vars

\* Runner.RunJob for a child that may also write overlong lines
NextLongLine ==
    \/ NextRunner
    \/ \E s \in Streams : ChildWriteLong(s)
    \/ \E s \in Streams : emitTooLong(s)

SpecLongLine == Init /\ [][NextLongLine]_vars

\* Each key's slot is set at most once; every caller makes one
\* TakePendingInput call, for any key and at any time.
NextPending ==
    \/ \E k \in Keys :
          /\ lastReply[KeyString(k)] = ""
          /\ SetPendingInput(k, "new")
    \/ \E h \in HandlerIds, k \in Keys : TakeLock(h, k)
    \/ \E h \in HandlerIds : TakeRead(h)
    \/ \E h \in HandlerIds : TakeDelete(h)
    \/ \E h \in HandlerIds : TakeUnlock(h)

SpecPending == Init /\ [][NextPending]_vars

ManagerWorkdirs == {PApp}
ManagerModes == {"full-access"}
ManagerExecutors == {"claude"}
ManagerCtxs == {RootCtx, DeadCtx}

\* The Manager's methods called in any order for two keys.
NextManager ==
    \/ \E k \in Keys, wd \in ManagerWorkdirs, ctx \in ManagerCtxs :
          ManagerSetWorkdir(k, wd, ctx)
    \/ \E k \in Keys : ManagerWorkdir(k)
    \/ \E k \in Keys, exName \in ManagerExecutors : ManagerSetDefaultExecutor(k, exName)
    \/ \E k \in Keys, mode \in ManagerModes, ctx \in ManagerCtxs :
          ManagerSetPermissionMode(k, mode, ctx)
    \/ \E k \in Keys : ManagerPermissionMode(k)
    \/ \E k \in Keys : SetPendingInput(k, "new")
    \/ \E k \in Keys : ManagerReset(k)

SpecManager == Init /\ [][NextManager]_vars

PermissionModes == {"sandbox", "full-access"}
ModeInputs == PermissionModes \cup {"yolo"}

\* Permission modes set and read for two keys, the Manager being rebuilt
\* over the same Store at any moment.
NextModes ==
    \/ \E k \in Keys, mode \in ModeInputs, ctx \in ManagerCtxs :
          ManagerSetPermissionMode(k, mode, ctx)
    \/ \E k \in Keys : ManagerPermissionMode(k)
    \/ \E k \in Keys, wd \in ManagerWorkdirs, ctx \in ManagerCtxs :
          ManagerSetWorkdir(k, wd, ctx)
    \/ \E k \in Keys : ManagerReset(k)
    \/ NewManager

SpecModes == Init /\ [][NextModes]_vars

\* ------------------------------------------- SQLiteStore, sessions table
\* SQLiteStore.UpsertSession: one statement
StoreUpsertSession(k, workdir) ==
    /\ sessionRows' = UpsertSessionRow(sessionRows, KeyString(k), workdir)
    /\ storeCalls' = [storeCalls EXCEPT
                        !.workdir = MapPut(@, KeyString(k), workdir)]
    /\ UNCHANGED <<jobs, events, execSessions, sessions, workdirs, chans,
                   sessionQueue, sem, semCap, buffer, inflight, cancelled,
                   handlers, nextJob, sendOrder, runLog, advertised, stopped,
                   saves, allowlist, rootDone, sink, checked, replies, lastReply, run,
                   pending, executors, modes, contexts, mu>>

\* SQLiteStore.SetSessionPermissionMode up to its SELECT: the mode is
\* normalised and put into the payload decoded from the row read
StoreSetModeSelect(c, k, mode) ==
    /\ storeCalls.calls[c].pc = "idle"
    /\ LET r == SelectSession(sessionRows, KeyString(k))
       IN storeCalls' = [storeCalls EXCEPT !.calls[c] =
              [pc |-> "selected", key |-> k,
               mode |-> NormalizePermissionMode(mode),
               workdir |-> r.workdir,
               context |-> PayloadWithMode(r.context, NormalizePermissionMode(mode)),
               found |-> HasRow(sessionRows, KeyString(k)), conflict |-> FALSE]]
    /\ UNCHANGED <<jobs, events, execSessions, sessions, workdirs, chans,
                   sessionQueue, sem, semCap, buffer, inflight, cancelled,
                   handlers, nextJob, sendOrder, runLog, advertised, stopped,
                   saves, allowlist, rootDone, sink, checked, replies, lastReply, run,
                   pending, executors, modes, contexts, mu, sessionRows>>

\* SQLiteStore.SetSessionPermissionMode from its INSERT on; with the context
\* done by then ExecContext fails and nothing is written
StoreSetModeExec(c, ctx) ==
    /\ storeCalls.calls[c].pc = "selected"
    /\ LET call == storeCalls.calls[c]
           ks == KeyString(call.key)
       IN IF CtxDone(ctx)
          THEN /\ storeCalls' = [storeCalls EXCEPT !.calls[c] = IdleStoreCall]
               /\ UNCHANGED sessionRows
          ELSE /\ sessionRows' = UpsertSessionContext(sessionRows, ks,
                                                      call.workdir, call.context)
               /\ storeCalls' = [storeCalls EXCEPT
                                   !.calls[c] = [call EXCEPT
                                       !.pc = "idle",
                                       !.conflict = HasRow(sessionRows, ks)],
                                   !.mode = MapPut(@, ks, call.mode)]
    /\ UNCHANGED <<jobs, events, execSessions, sessions, workdirs, chans,
                   sessionQueue, sem, semCap, buffer, inflight, cancelled,
                   handlers, nextJob, sendOrder, runLog, advertised, stopped,
                   saves, allowlist, rootDone, sink, checked, replies, lastReply, run,
                   pending, executors, modes, contexts, mu>>

\* UpsertSession and SetSessionPermissionMode called concurrently for two
\* keys on a fresh database.
NextRows ==
    \/ \E k \in Keys, wd \in SaveWorkdirs : StoreUpsertSession(k, wd)
    \/ \E c \in StoreCallIds, k \in Keys, mode \in ModeInputs :
          StoreSetModeSelect(c, k, mode)
    \/ \E c \in StoreCallIds, ctx \in ManagerCtxs : StoreSetModeExec(c, ctx)

SpecRows == Init /\ [][NextRows]_vars

\* Prompts and the commands that change a session's settings, handled while
\* the session's jobs are queued or running.
NextCapture ==
    \/ \E k \in Keys :
          /\ Cardinality(ActiveKeys \cup {k}) <= MaxSessions
          /\ enqueueJob(1, k)
    \/ Enqueue(1)
    \/ EnqueueSend(1)
    \/ HandlerReturn(1)
    \/ \E k \in ActiveKeys : HandleCd(k, PApp)
    \/ \E k \in ActiveKeys : HandleMode(k, "full-access")
    \/ \E k \in ActiveKeys : HandleSetExecutor(k, "claude")
    \/ \E k \in ActiveKeys : HandleReset(k)
    \/ Consumer
    \/ runJob({TRUE}, {"", "S1"}, {0})

SpecCapture == InitLifecycle /\ [][NextCapture]_vars

\* --------------------------------------------------------------- transports
\* strconv.FormatInt(n, 10) for n >= 0, as a sequence of characters
RECURSIVE FormatInt(_)
FormatInt(n) ==
    IF n < 10 THEN <<ToString(n)>> ELSE FormatInt(n \div 10) \o <<ToString(n % 10)>>

\* telegram toDomainMessage: telegramID.UnmarshalJSON takes the chat id from
\* a JSON number or from a JSON string as it is; the thread id is set from
\* a non-zero message_thread_id
TelegramKey(chatId, threadId) ==
    [platform |-> "telegram", chat |-> chatId,
     thread |-> IF threadId # 0 THEN FormatInt(threadId) ELSE << >>]

\* whatsapp handleInbound: the chat_id string of the payload, no thread id
WhatsAppKey(chatId) == [platform |-> "whatsapp", chat |-> chatId, thread |-> << >>]

TelegramChatIds == {<<"1">>, <<"1", ":", "7">>}
TelegramThreadIds == {0, 7}
WhatsAppChatIds == {<<"1">>}

\* the session keys of the messages the two transports hand to the handler
DeliveredKeys ==
    {TelegramKey(c, t) : c \in TelegramChatIds, t \in TelegramThreadIds}
    \cup {WhatsAppKey(c) : c \in WhatsAppChatIds}

\* The Manager called for the session keys the transports deliver.
NextKeys ==
    \/ \E k \in DeliveredKeys, wd \in ManagerWorkdirs : ManagerSetWorkdir(k, wd, RootCtx)
    \/ \E k \in DeliveredKeys : ManagerWorkdir(k)
    \/ \E k \in DeliveredKeys : ManagerSetDefaultExecutor(k, "claude")
    \/ \E k \in DeliveredKeys : ManagerReset(k)

SpecKeys == Init /\ [][NextKeys]_vars

\* ---------------------------------------------------------------- shutdown
\* SIGTERM or SIGINT arrives: signal.NotifyContext cancels the root context
CancelRoot ==
    /\ ~rootDone
    /\ rootDone' = TRUE
    /\ UNCHANGED <<jobs, events, execSessions, sessions, workdirs, chans,
                   sessionQueue, sem, semCap, buffer, inflight, cancelled,
                   handlers, nextJob, sendOrder, runLog, advertised, stopped,
                   saves, allowlist, sessionRows, storeCalls, sink, checked,
                   replies, lastReply, run, pending, executors, modes,
                   contexts, mu>>

TelegramKeys == {k \in Keys : k.platform = "telegram"}

\* job ids a "/stop" can name: those the orchestrator hands out and one it
\* never does
StopIds == JobIds \cup {MaxJobs + 1}

\* The jobs of the Telegram sessions, with "/stop <id>" sent from any session
\* at any moment, and the process told to shut down at any moment.
NextStop ==
    \/ \E k \in TelegramKeys : enqueueJob(1, k)
    \/ Enqueue(1)
    \/ EnqueueSend(1)
    \/ HandlerReturn(1)
    \/ \E k \in Keys, id \in StopIds : HandleStop(k, id)
    \/ Consumer
    \/ runJob({TRUE}, {""}, {0})
    \/ CancelRoot

SpecStop == InitLifecycle /\ [][NextStop]_vars

\* the steps of the handler goroutines inside Dispatcher.Enqueue and after it
EnqueueSteps ==
    \/ \E h \in HandlerIds : Enqueue(h)
    \/ \E h \in HandlerIds : EnqueueSend(h)
    \/ \E h \in HandlerIds : HandlerReturn(h)

\* the steps of the consume goroutines, runJob included
WorkerSteps ==
    \/ Consumer
    \/ runJob({TRUE}, {""}, {0})

\* Telegram sessions, whose workers run under the root context, with the root
\* context cancelled at any moment; Bot.Start hands the updates of the batch
\* it has fetched to the handler without looking at the context in between.
NextShutdown ==
    \/ \E h \in HandlerIds, k \in TelegramKeys : enqueueJob(h, k)
    \/ EnqueueSteps
    \/ WorkerSteps
    \/ CancelRoot

\* the Go scheduler runs every goroutine that can take a step
FairShutdown == WF_vars(EnqueueSteps) /\ WF_vars(WorkerSteps)

SpecShutdown == InitDispatch /\ [][NextShutdown]_vars /\ FairShutdown

\* ------------------------------------------------------------------ claims
\* the worker is inside d.worker(ctx, job), that is Orchestrator.runJob
InWorkerPcs == {"runJob", "spawn", "child", "final", "save", "finish", "defer"}
InWorker(i) == chans[i].pc \in InWorkerPcs

\* C1: for every session key at most one job of that session is inside the
\* worker function at any moment, and exactly one queue with one worker loop
\* exists per session key, whatever the interleaving of Enqueue calls.
C1_OneJobPerSession ==
    /\ \A i, j \in ChanIds : i # j => chans[i].key # chans[j].key
    /\ \A i \in ChanIds : sessionQueue[chans[i].key] = i
    /\ \A i \in ChanIds : InWorker(i) => KeyString(chans[i].w.job.key) = chans[i].key
    /\ \A i, j \in ChanIds :
          (i # j /\ InWorker(i) /\ InWorker(j))
              => KeyString(chans[i].w.job.key) # KeyString(chans[j].w.job.key)

\* two handlers have run Enqueue concurrently for a session not seen before,
\* and one of their jobs is inside the worker while the other one waits
C1_Witness ==
    \E i \in ChanIds, h \in HandlerIds :
        /\ InWorker(i)
        /\ handlers[h].pc = "send"
        /\ handlers[h].q = i
        /\ Len(sendOrder[chans[i].key]) = 1

IndexOf(log, e) == CHOOSE n \in 1..Len(log) : log[n] = e
Occurs(log, e) == \E n \in 1..Len(log) : log[n] = e

\* C2: for two jobs J1, J2 of one session whose Enqueue completed in that
\* order, the worker is never started on J2 unless its invocation for J1 has
\* begun and returned before.
C2_EnqueueOrder ==
    \A ks \in KeyStrings :
        \A a, b \in 1..Len(sendOrder[ks]) :
            (a < b /\ Occurs(runLog[ks], <<"start", sendOrder[ks][b]>>))
                => /\ Occurs(runLog[ks], <<"start", sendOrder[ks][a]>>)
                   /\ Occurs(runLog[ks], <<"end", sendOrder[ks][a]>>)
                   /\ IndexOf(runLog[ks], <<"start", sendOrder[ks][a]>>)
                        < IndexOf(runLog[ks], <<"end", sendOrder[ks][a]>>)
                   /\ IndexOf(runLog[ks], <<"end", sendOrder[ks][a]>>)
                        < IndexOf(runLog[ks], <<"start", sendOrder[ks][b]>>)

\* both jobs of one session were waiting in the queue together and both ran
C2_Witness ==
    \E ks \in KeyStrings :
        /\ Len(sendOrder[ks]) = 2
        /\ Len(runLog[ks]) = 4
        /\ runLog[ks][1] = <<"start", sendOrder[ks][1]>>
        /\ runLog[ks][4] = <<"end", sendOrder[ks][2]>>

\* C3: the number of worker invocations in progress never exceeds the
\* semaphore capacity, and the slots taken are exactly those of the workers
\* between acquiring a slot and releasing it after the invocation returned.
C3_ConcurrencyCap ==
    /\ Cardinality({i \in ChanIds : InWorker(i)}) <= semCap
    /\ sem = Cardinality({i \in ChanIds : InWorker(i) \/ chans[i].pc = "release"})
    /\ sem <= semCap

\* one session's worker waits for a slot while another session's job runs
C3_Witness ==
    \E i, j \in ChanIds :
        /\ chans[i].pc = "acquire"
        /\ InWorker(j)
        /\ sem = semCap

Terminal(j) == j \in DOMAIN jobs /\ jobs[j].status \in {"done", "failed"}

\* C4: for every job with a terminal status the events persisted for it have
\* the seq values 1..N without gap or duplicate, exactly one of them is final
\* and it is the one with seq N.
C4_EventsComplete ==
    \A j \in JobIds :
        Terminal(j) =>
            LET ev == events[j]
                N == Len(ev)
            IN /\ N >= 1
               /\ {ev[n].seq : n \in 1..N} = 1..N
               /\ Cardinality({n \in 1..N : ev[n].is_final}) = 1
               /\ \E n \in 1..N : ev[n].is_final /\ ev[n].seq = N

\* no handler is in progress and no worker can take a step
Settled ==
    /\ \A h \in HandlerIds : handlers[h].pc = "idle"
    /\ \A i \in ChanIds :
          \/ chans[i].pc = "exited"
          \/ chans[i].pc = "select" /\ chans[i].buf = << >> /\ ~CtxDone(chans[i].ctx)

\* C5: with the root context never cancelled, every job that enqueueJob
\* persisted and enqueued is handed to runJob and reaches a terminal status,
\* whichever context its handler was called with; stated on the runs that
\* have come to rest: nothing is left to run and every job is done or failed.
C5_EveryJobFinishes ==
    Settled => \A j \in DOMAIN jobs : Terminal(j)

\* C6: when /stop is handled while the job's child runs, the job gets the
\* terminal status failed, its cancellation handle is deregistered and the
\* jobs queued behind it in the session are started.
C6_StopRunningJob ==
    \A j \in stopped :
        LET ks == KeyString(jobs[j].key)
        IN /\ Occurs(runLog[ks], <<"end", j>>)
                => (jobs[j].status = "failed" /\ j \notin inflight)
           /\ Settled
                => /\ Occurs(runLog[ks], <<"end", j>>)
                   /\ \A n \in 1..Len(sendOrder[ks]) :
                         Occurs(runLog[ks], <<"start", sendOrder[ks][n]>>)

StatusStep(old, new) ==
    \/ old = new
    \/ <<old, new>> \in {<<"none", "pending">>, <<"pending", "running">>,
                         <<"running", "done">>, <<"running", "failed">>}

StatusOf(tbl, j) == IF j \in DOMAIN tbl THEN tbl[j].status ELSE "none"

\* C7: the persisted status of a job only moves pending -> running ->
\* (done | failed), never backwards and never away from a terminal status; a
\* job is handed to the worker at most once, so its terminal status is written
\* at most once; the status stopped is never written.
C7_StatusLifecycle ==
    /\ [][\A j \in JobIds : StatusStep(StatusOf(jobs, j), StatusOf(jobs', j))]_vars
    /\ [](\A j \in JobIds :
            /\ StatusOf(jobs, j) \in {"none", "pending", "running", "done", "failed"}
            /\ \A ks \in KeyStrings :
                  Cardinality({n \in 1..Len(runLog[ks]) : runLog[ks][n] = <<"start", j>>}) <= 1)

\* a job cancelled by /stop has ended failed and another job has ended done
C7_Witness ==
    \E j, j2 \in DOMAIN jobs :
        j \in cancelled /\ jobs[j].status = "failed" /\ jobs[j2].status = "done"

SameTuple(a, b) == a.key = b.key /\ a.executor = b.executor /\ a.workdir = b.workdir

\* C8: when two prompts are accepted in order for the same executor, session
\* key and workdir and the first job's stream advertised session id S, the
\* second job is run with job.Session = S, also when it was accepted while the
\* first job was still queued or running.
C8_ResumesPrevious ==
    \A i \in ChanIds :
        InWorker(i) =>
            \A j1 \in DOMAIN jobs :
                ( /\ j1 < chans[i].w.job.id
                  /\ SameTuple(jobs[j1], chans[i].w.job)
                  /\ \A j \in DOMAIN jobs :
                        (j1 < j /\ j < chans[i].w.job.id) => ~SameTuple(jobs[j], jobs[j1])
                  /\ advertised[j1] # "" )
                => chans[i].w.job.session = advertised[j1]

RECURSIVE LastSaved(_, _, _, _)
LastSaved(log, name, key, wd) ==
    IF log = << >> THEN ""
    ELSE LET e == log[Len(log)]
         IN IF e.executor = name /\ e.key = key /\ e.workdir = wd /\ TrimSpace(e.sid) # ""
            THEN e.sid
            ELSE LastSaved(SubSeq(log, 1, Len(log) - 1), name, key, wd)

\* C9: after any sequence of SaveSession calls, LoadSession for a tuple
\* (executor, platform, chat_id, thread_id, workdir) returns the session id
\* most recently saved for exactly that tuple, or empty if there is none; a
\* save for a tuple that differs in a component does not change it.
C9_LoadReturnsLastSaved ==
    \A name \in AdapterNames, key \in SaveKeys, wd \in SaveWorkdirs :
        LoadSession(execSessions, RootCtx, name, [key |-> key, workdir |-> wd])
            = LastSaved(saves, name, key, wd)

\* two tuples that differ only in the thread id hold different session ids,
\* the first of them saved before the second
C9_Witness ==
    /\ Len(saves) >= 2
    /\ saves[1].key = KTg
    /\ LoadSession(execSessions, RootCtx, "codex", [key |-> KTg, workdir |-> PRoot]) = "S1"
    /\ LoadSession(execSessions, RootCtx, "codex", [key |-> KTgThread, workdir |-> PRoot]) = "S2"

\* the directory names of a cleaned absolute path
Components(p) == CleanFold(Split(p), << >>, TRUE)

\* p is an allowed root or lies below one
UnderAllowedRoot(p) ==
    /\ IsAbs(p)
    /\ \E r \in 1..Len(roots) :
          LET rs == Components(roots[r])
              ps == Components(p)
          IN Len(rs) <= Len(ps) /\ SubSeq(ps, 1, Len(rs)) = rs

\* C10: every Job row is created with the workdir SessionManager.Workdir
\* returns for its session at that moment, that workdir is an allowed root or
\* lies below one, and every job is run in the workdir of its row.
C10_JobWorkdirAllowed ==
    /\ [][\A j \in (DOMAIN jobs') \ (DOMAIN jobs) :
             jobs'[j].workdir = Workdir(jobs'[j].key)]_vars
    /\ [](\A j \in DOMAIN jobs : UnderAllowedRoot(jobs[j].workdir))
    /\ [](\A i \in ChanIds :
            InWorker(i) => /\ UnderAllowedRoot(chans[i].w.job.workdir)
                           /\ chans[i].w.job.workdir = jobs[chans[i].w.job.id].workdir)

\* a job runs in a directory below the root that was set with a relative path
C10_Witness ==
    \E i \in ChanIds :
        /\ chans[i].pc = "child"
        /\ chans[i].w.job.workdir = PApp
        /\ jobs[chans[i].w.job.id].workdir = PApp

\* what Policy.Validate has to refuse, stated on the path's components
Refused(exName, wd) == exName \notin allowlist \/ ~UnderAllowedRoot(wd)

\* C11: when Policy.Validate rejects a job, enqueueJob replies with the
\* rejection, creates no Job row and enqueues nothing: the jobs and the queues
\* are as before, so no row and no queued job is ever one Validate refuses.
C11_RejectLeavesNoTrace ==
    /\ [][\A h \in HandlerIds, k \in Keys, exName \in AdapterNames :
            ( /\ enqueueJobAs(h, k, exName)
              /\ Workdir(k) # EmptyPath
              /\ Refused(exName, Workdir(k)) )
            => /\ lastReply'[KeyString(k)] = "job rejected"
               /\ UNCHANGED <<jobs, events, chans, sessionQueue, handlers,
                              sendOrder, replies, nextJob>>]_vars
    /\ [](\A j \in DOMAIN jobs : ~Refused(jobs[j].executor, jobs[j].workdir))
    /\ [](\A i \in ChanIds : \A n \in 1..Len(chans[i].buf) :
            ~Refused(chans[i].buf[n].executor, chans[i].buf[n].workdir))

\* one session was refused for its workdir, another for its executor, and a
\* third prompt was accepted
C11_Witness ==
    /\ lastReply[KeyString(KWa)] = "job rejected"
    /\ lastReply[KeyString(KTg)] = "job rejected"
    /\ jobs # EmptyMap

\* a workdir held for a session: empty, or cleaned and equal to or below a root
AllowedOrEmpty(w) == w = EmptyPath \/ (Clean(w) = w /\ UnderAllowedRoot(w))

\* a handler that had taken its pending input returns in this step
Returns(h) == handlers[h].pc = "taken" /\ handlers'[h].pc = "idle"

\* C12: after any sequence of /cd, /cd <path>, /new <path> and /new followed
\* by a path, the workdir held for a session in the Session Manager and in
\* the Store is empty or a cleaned path equal to or below an allowed root, and
\* a rejected path leaves the workdir as it was.
C12_SessionWorkdirAllowed ==
    /\ [](\A k \in Keys :
            /\ AllowedOrEmpty(SessionWorkdir(sessions, k))
            /\ KeyString(k) \in DOMAIN workdirs => AllowedOrEmpty(workdirs[KeyString(k)]))
    /\ [][\A h \in HandlerIds :
            ( /\ Returns(h)
              /\ lastReply'[KeyString(handlers[h].key)]
                    \in {"workdir rejected", "create workdir failed",
                         "workdir cannot be empty"} )
            => UNCHANGED <<workdirs, sessions>>]_vars

\* a workdir created through /new and a path, then kept when a later path is
\* rejected
C12_Witness ==
    \E k \in Keys :
        /\ SessionWorkdir(sessions, k) = PApp
        /\ Workdir(k) = PApp
        /\ lastReply[KeyString(k)] = "workdir rejected"

\* a message of session k with this text begins to be handled
Incoming(k, text) == HandleBlank(k, text) \/ \E h \in HandlerIds : MsgTake(h, k, text)

\* C18 as stated: whenever the pending-input slot of a session is set, handling
\* the next message of the session, whatever its text, clears the slot.
C18_AnyTextConsumes ==
    [][\A k \in Keys, text \in Texts \cup BlankTexts :
          (PendingInput(k) # "" /\ Incoming(k, text)) => PendingInput(k)' = ""]_vars

\* C18: whenever the pending-input slot of a session is set, handling the next
\* message whose text is not empty after trimming clears the slot and treats
\* the trimmed text as the path of the pending action, not as a command or a
\* prompt; the slot is none afterwards even if the path was rejected.
C18_TextConsumesPending ==
    /\ [][\A h \in HandlerIds, k \in Keys, text \in Texts \cup BlankTexts :
            (PendingInput(k) # "" /\ TrimSpaceText(text) # << >> /\ MsgTake(h, k, text))
            => /\ PendingInput(k)' = ""
               /\ handlers'[h].action = PendingInput(k)
               /\ handlers'[h].text = TrimSpaceText(text)]_vars
    /\ [][\A h \in HandlerIds :
            (Returns(h) /\ handlers[h].action # "")
            => \A k \in {handlers[h].key}, t \in {handlers[h].text} :
                  /\ PendingInput(k)' = ""
                  /\ UNCHANGED <<jobs, nextJob, executors, modes, chans, sessionQueue>>
                  /\ \/ UNCHANGED <<workdirs, sessions>>
                     \/ \A path \in {Clean(IF IsAbs(t) THEN t ELSE Join(PrimaryRoot, t))} :
                           /\ Workdir(k)' = path
                           /\ SessionWorkdir(sessions, k)' = path]_vars
    /\ [](\A h \in HandlerIds :
            (handlers[h].pc # "idle" /\ PendingInput(handlers[h].key) # "")
            => handlers[h].pc = "taken")

\* a command text is held as the path of the pending "new" action
C18_Witness ==
    \E h \in HandlerIds :
        /\ handlers[h].pc = "taken"
        /\ handlers[h].action = "new"
        /\ handlers[h].text = WithArg(TCd, PApp)

\* the events of the job in the Store, in the order they were appended
Stored == IF run.job = NoJob THEN << >> ELSE events[run.job]

Finals(q) == {i \in 1..Len(q) : q[i].is_final}

\* C13: for every job, the order in which its events are appended to the
\* Store is the order of their seq values, for any interleaving of the stdout
\* and stderr readers.
C13_AppendOrderIsSeqOrder ==
    \A i, j \in 1..Len(Stored) : i < j => Stored[i].seq < Stored[j].seq

\* C14: no event of a job is delivered to the sink after its terminal
\* is_final event: the terminal event is emitted only after both readers have
\* finished, and exactly once.
C14_FinalIsLast ==
    /\ [](/\ Cardinality(Finals(run.delivered)) <= 1
          /\ \A i \in Finals(run.delivered) :
                /\ i = Len(run.delivered)
                /\ \A s \in Streams : run.emit[s].pc = "done"
                /\ run.delivered[i].seq = Len(run.delivered)
          /\ (run.pc = "returned" /\ run.spawned)
                => Cardinality(Finals(run.delivered)) = 1)
    /\ [][Finals(run.delivered) # {} => run.delivered' = run.delivered]_vars

\* RunJob has returned after both streams carried lines to the sink
C14_Witness ==
    /\ run.pc = "returned"
    /\ Len(run.delivered) = 3
    /\ run.delivered[3].is_final
    /\ {run.delivered[1].stream, run.delivered[2].stream} = Streams

\* C15: whenever RunJob returns an error after the child was spawned, every
\* event emitted before the error is in the Store and a terminal event with
\* is_final and a non-zero exit code has been emitted and persisted.
C15_ErrorKeepsEvents ==
    (run.pc = "returned" /\ run.spawned /\ run.err) =>
        /\ \A i \in 1..Len(run.delivered) :
              \E n \in 1..Len(Stored) :
                 /\ Stored[n].seq = run.delivered[i].seq
                 /\ Stored[n].is_final = run.delivered[i].is_final
        /\ \E i \in Finals(run.delivered) : run.delivered[i].exit_code # 0
        /\ Finals(Stored) # {}

\* the lines of stream s that reached the sink
DeliveredLines(s) ==
    Cardinality({i \in 1..Len(run.delivered) : run.delivered[i].stream = s})

\* C16: every line the child wrote to stdout or stderr before exiting is
\* delivered to the sink before the terminal event, whatever the timing of
\* the child's exit and the two readers.
C16_NoLineLost ==
    Finals(run.delivered) # {} =>
        \A s \in Streams : DeliveredLines(s) = run.written[s]

\* the replies of a job that come from the worker running it
WorkerReplies == {"chunk", "job done", "job failed"}

\* C17: for every job, the 'job queued' reply is sent to the transport before
\* any output chunk of the job and before its 'job done' or 'job failed'
\* reply, for every interleaving of the handler with the dispatcher worker.
C17_QueuedReplyFirst ==
    \A j \in JobIds :
        \A i \in 1..Len(replies[j]) :
            replies[j][i] \in WorkerReplies
                => \E n \in 1..(i - 1) : replies[j][n] = "job queued"

\* the callers whose TakePendingInput for key k returned the action
Takers(k) ==
    {h \in HandlerIds : /\ handlers[h].pc = "took"
                        /\ handlers[h].key = k
                        /\ handlers[h].action # ""}

\* C19: TakePendingInput is an atomic read-and-clear: for a slot set once,
\* among any number of concurrent calls for the key exactly one returns the
\* action and all others return empty.
C19_TakeIsAtomic ==
    \A k \in Keys :
        /\ Cardinality(Takers(k)) <= 1
        /\ \A h \in Takers(k) : handlers[h].action = "new"
        /\ mu = 0 =>
              Cardinality(Takers(k)) + (IF PendingInput(k) # "" THEN 1 ELSE 0)
                 = (IF lastReply[KeyString(k)] # "" THEN 1 ELSE 0)

\* two calls for one key have returned: one got the action, the other nothing
C19_Witness ==
    \E k \in Keys, h1, h2 \in HandlerIds :
        /\ handlers[h1].pc = "took" /\ handlers[h1].key = k
        /\ handlers[h2].pc = "took" /\ handlers[h2].key = k
        /\ handlers[h1].action = "new"
        /\ handlers[h2].action = ""

\* map m2 is map m1 without the entry of ks and otherwise the same
Without(m1, m2, ks) ==
    /\ DOMAIN m2 = DOMAIN m1 \ {ks}
    /\ \A x \in DOMAIN m2 : m2[x] = m1[x]

\* C20: Reset(key) removes only the in-memory entries (workdir, default
\* executor, permission mode, pending input) of that key and leaves the Store
\* and all other keys unchanged; a Workdir or PermissionMode read after Reset
\* returns the last value persisted for the key.
C20_ResetFrame ==
    [][\A k \in Keys :
         ManagerReset(k) =>
            /\ UNCHANGED <<jobs, events, execSessions, sessions, contexts>>
            /\ Without(workdirs, workdirs', KeyString(k))
            /\ Without(executors, executors', KeyString(k))
            /\ Without(modes, modes', KeyString(k))
            /\ Without(pending, pending', KeyString(k))
            /\ Workdir(k)' = SessionWorkdir(sessions, k)
            /\ PermissionMode(k)' = SessionPermissionMode(contexts, k)
            /\ DefaultExecutor(k)' = ""
            /\ PendingInput(k)' = ""]_vars

\* after a Reset of the telegram key its cache is gone, its persisted workdir
\* and mode are what a read returns, and the whatsapp key still holds a cached
\* workdir that was never persisted
C20_Witness ==
    /\ KeyString(KTg) \notin DOMAIN workdirs \cup DOMAIN modes
    /\ Workdir(KTg) = PApp
    /\ PermissionMode(KTg) = "full-access"
    /\ KeyString(KWa) \in DOMAIN workdirs
    /\ KeyString(KWa) \notin DOMAIN sessions
    /\ DefaultExecutor(KWa) = "claude"
    /\ PendingInput(KWa) = "new"

\* the ids of the jobs waiting in a queue, oldest first
Waiting(i) == [n \in 1..Len(chans[i].buf) |-> chans[i].buf[n].id]

\* job id was received from its queue by the worker
Handed(ks, id) ==
    \/ Occurs(runLog[ks], <<"start", id>>)
    \/ \E i \in ChanIds : chans[i].key = ks /\ chans[i].w.job.id = id

\* C30: when a session's queue already holds perSessionBuffer waiting jobs,
\* Enqueue does not return until the worker has taken a job from the queue,
\* and it never drops, rejects or reorders the job: every job whose Enqueue
\* returned is in the queue or has been handed to the worker.
C30_EnqueueBlocksWhenFull ==
    /\ [](\A i \in ChanIds :
            /\ Len(chans[i].buf) <= buffer
            /\ Len(Waiting(i)) <= Len(sendOrder[chans[i].key])
            /\ \A so \in {sendOrder[chans[i].key]} :
                  /\ SubSeq(so, Len(so) - Len(Waiting(i)) + 1, Len(so)) = Waiting(i)
                  /\ \A n \in 1..(Len(so) - Len(Waiting(i))) : Handed(chans[i].key, so[n]))
    /\ [][\A h \in HandlerIds :
            (handlers[h].pc = "send" /\ handlers'[h].pc # "send")
            => \A q \in {handlers[h].q}, job \in {handlers[h].job} :
                  /\ Len(chans[q].buf) < buffer
                  /\ chans'[q].buf = Append(chans[q].buf, job)]_vars

\* an Enqueue is blocked on a full queue while an earlier job of the session
\* still waits in it
C30_Witness ==
    \E h \in HandlerIds :
        /\ handlers[h].pc = "send"
        /\ Len(chans[handlers[h].q].buf) = buffer
        /\ chans[handlers[h].q].pc = "select"

\* what PermissionMode(key) returns on a Manager built now over the Store
FreshPermissionMode(key) == NormalizePermissionMode(SessionPermissionMode(contexts, key))

SetSucceeds(k, m) == ManagerSetPermissionMode(k, m, RootCtx)
SetCalled(k) == \E m \in ModeInputs, ctx \in ManagerCtxs : ManagerSetPermissionMode(k, m, ctx)

\* C21: after SetPermissionMode(k, m) succeeds, for m sandbox or full-access,
\* PermissionMode(k) returns m on the same Manager and on a Manager built
\* afterwards over the same Store, until the next SetPermissionMode(k, _);
\* for a key never set PermissionMode returns sandbox.
C21_PermissionModeRoundTrip ==
    /\ \A k \in Keys : PermissionMode(k) = "sandbox"
    /\ [][\A k \in Keys :
            /\ \A m \in PermissionModes :
                  SetSucceeds(k, m)
                  => PermissionMode(k)' = m /\ FreshPermissionMode(k)' = m
            /\ ~SetCalled(k)
                  => /\ FreshPermissionMode(k)' = FreshPermissionMode(k)
                     /\ (ManagerReset(k) \/ NewManager
                           => PermissionMode(k)' = FreshPermissionMode(k))
                     /\ (~ManagerReset(k) /\ ~NewManager
                           => PermissionMode(k)' = PermissionMode(k))]_vars

\* a Manager that was just built reads full-access from the Store
C21_Witness ==
    /\ modes = EmptyMap
    /\ FreshPermissionMode(KTg) = "full-access"
    /\ FreshPermissionMode(KWa) = "sandbox"
    /\ KeyString(KWa) \in DOMAIN contexts

\* C27: a Claude job whose child exits with code 1 after emitting an event
\* ends with status done, one whose child exits with code 2 ends failed, and
\* for an executor without IsSuccessExitCode only exit code 0 yields done.
C27_ExitCodeDecidesStatus ==
    \A i \in ChanIds :
        LET c == chans[i]
        IN (c.pc = "defer" /\ ~RunnerCtxDone(c) /\ c.w.lines >= 1)
            => StatusOf(jobs, c.w.job.id) =
                  IF IsSuccessExitCode(c.w.job.executor, c.w.code)
                  THEN "done" ELSE "failed"

\* C28: when the child emits a line longer than the 1 MiB line buffer on
\* stdout or stderr, the reader error is surfaced: RunJob returns an error
\* and the job ends with status failed.
C28_LongLineFailsJob ==
    (run.pc = "returned" /\ \E s \in Streams : run.tooLong[s])
        => run.err /\ FinalStatus(run.err, FALSE) = "failed"

\* the Send calls made for the event with seq n, in order
RECURSIVE SentFor(_, _)
SentFor(q, n) ==
    IF q = << >> THEN << >>
    ELSE IF Head(q).kind = "chunk" /\ Head(q).seq = n
         THEN <<Head(q)>> \o SentFor(Tail(q), n)
         ELSE SentFor(Tail(q), n)

RECURSIVE Concat(_)
Concat(q) == IF q = << >> THEN << >> ELSE Head(q).text \o Concat(Tail(q))

\* persistSink.OnEvent has returned for the event with seq n
Returned(n) == n < sink.seq \/ (n = sink.seq /\ sink.pc \in {"read", "returned", "done"})

\* the event with seq n is in the Store
Persisted(n) == \E i \in 1..Len(events[SinkJob]) : events[SinkJob][i].seq = n

Ceil(l, m) == (l + m - 1) \div m

IsPrefix(p, q) == Len(p) <= Len(q) /\ SubSeq(q, 1, Len(p)) = p

SentMessages == {sink.sent[i] : i \in 1..Len(sink.sent)}

\* C22 as stated: for every non-empty chunk of length L and every maxChunk
\* M >= 1, Batcher.OnEvent performs exactly ceil(L/M) sends, in order, each
\* of at most M bytes, all but the last of exactly M bytes, whose
\* concatenation equals the chunk; no empty message is ever sent.
C22_ExactlyCeilSends ==
    /\ \A n \in 1..Len(sink.handled) :
          LET c == sink.handled[n].chunk
              q == SentFor(sink.sent, n)
          IN (Returned(n) /\ Persisted(n) /\ c # << >>)
              => /\ Len(q) = Ceil(Len(c), sink.maxChunk)
                 /\ \A i \in 1..Len(q) :
                       /\ Len(q[i].text) <= sink.maxChunk
                       /\ i < Len(q) => Len(q[i].text) = sink.maxChunk
                 /\ Concat(q) = c
    /\ \A m \in SentMessages : m.text # << >>

\* C22: for every non-empty chunk and every maxChunk M >= 1, Batcher.OnEvent
\* sends consecutive pieces of the chunk in order, each of at most M bytes and
\* each of exactly M bytes unless it ends the chunk, and stops at the first
\* Send that fails; when no Send fails it performs exactly ceil(L/M) sends
\* whose concatenation equals the chunk; no empty message is ever sent.
C22_PiecesUntilFailure ==
    /\ \A n \in 1..Len(sink.handled) :
          LET c == sink.handled[n].chunk
              q == SentFor(sink.sent, n)
          IN /\ IsPrefix(Concat(q), c)
             /\ \A i \in 1..Len(q) :
                   /\ Len(q[i].text) <= sink.maxChunk
                   /\ Len(q[i].text) = sink.maxChunk
                         \/ (i = Len(q) /\ Concat(q) = c)
                   /\ i < Len(q) => q[i].ok
             /\ (Returned(n) /\ Persisted(n) /\ c # << >>)
                   => /\ q # << >>
                      /\ q[Len(q)].ok
                            => Len(q) = Ceil(Len(c), sink.maxChunk) /\ Concat(q) = c
    /\ \A m \in SentMessages : m.text # << >>

\* a chunk of three bytes went out as two sends of two bytes and one byte,
\* and another chunk lost its tail to a failing Send
C22_Witness ==
    /\ sink.maxChunk = 2
    /\ Len(sink.handled) >= 2
    /\ Returned(2)
    /\ LET q == SentFor(sink.sent, 1)
       IN Len(q) = 2 /\ q[1].ok /\ q[2].ok /\ Len(q[1].text) = 2 /\ Len(q[2].text) = 1
    /\ LET q == SentFor(sink.sent, 2)
       IN Len(q) = 1 /\ ~q[1].ok /\ Len(sink.handled[2].chunk) = 3

\* C23: for every event the persistSink applies adapter.HandleEvent, then
\* Store.AppendEvent, then Batcher.OnEvent: a chunk is sent to the transport
\* only after the rewritten event was appended to the Store, and an event
\* whose append failed is never sent.
C23_AppendBeforeSend ==
    /\ [](\A n \in 1..Len(sink.handled) :
             /\ SentFor(sink.sent, n) # << >> => Persisted(n)
             /\ IsPrefix(Concat(SentFor(sink.sent, n)), sink.handled[n].chunk)
             /\ (Returned(n) /\ ~Persisted(n)) => SentFor(sink.sent, n) = << >>)
    /\ [][events' # events
            => /\ sink.pc = "append"
               /\ sink.ev = sink.handled[sink.seq]
               /\ SentFor(sink.sent, sink.seq) = << >>
               /\ sink'.sent = sink.sent]_vars

\* the first event was appended and sent; the second, with a chunk to send,
\* failed to append and OnEvent returned without a Send
C23_Witness ==
    /\ Len(sink.handled) >= 2
    /\ Persisted(1)
    /\ SentFor(sink.sent, 1) # << >>
    /\ Returned(2)
    /\ ~Persisted(2)
    /\ sink.handled[2].chunk # << >>
    /\ SentFor(sink.sent, 2) = << >>

\* C24: an event whose chunk is empty after the adapter's rewriting is still
\* appended to the Store with its seq but causes no transport send; every
\* event with a non-empty chunk causes at least one send.
C24_EmptyChunkPersistedNotSent ==
    \A n \in 1..Len(sink.handled) :
        Returned(n)
        => /\ Persisted(n)
           /\ sink.handled[n].chunk = << >> <=> SentFor(sink.sent, n) = << >>

\* C25: a failing Transport.Send never prevents persistence and never changes
\* the job outcome: the Runner keeps reading until the child exits, every
\* event handed to the sink while its context is live is appended, and the
\* terminal status is decided by the child's exit code alone.
C25_SendFailureIsSwallowed ==
    /\ sink.pc \in {"read", "append", "batch", "send"} => sink.reading
    /\ ~sink.ctxDone => \A n \in 1..Len(sink.handled) : Returned(n) => Persisted(n)
    /\ sink.pc = "done"
          => sink.status = IF sink.code = 0 THEN "done" ELSE "failed"

\* the first chunk's Send failed, the later events were appended all the
\* same and the job ended done
C25_Witness ==
    /\ sink.pc = "done"
    /\ sink.status = "done"
    /\ ~sink.ctxDone
    /\ Len(sink.handled) = 3
    /\ \A n \in 1..3 : Persisted(n)
    /\ SentFor(sink.sent, 1) # << >>
    /\ ~SentFor(sink.sent, 1)[1].ok
    /\ SentFor(sink.sent, 2) # << >>

\* C26: when the adapter sets format html on an event, every outbound
\* message sent for that event's chunk carries format html; outbound
\* messages for events without a format and command replies carry no format.
C26_FormatReachesTransport ==
    \A m \in SentMessages :
        m.format = IF m.kind = "chunk" THEN sink.handled[m.seq].format ELSE ""

\* wd is root or lies strictly below it, by directory names
EqualOrBelow(wd, root) ==
    /\ IsAbs(wd) = IsAbs(root)
    /\ IsPrefix(CleanFold(Split(root), << >>, IsAbs(root)),
                CleanFold(Split(wd), << >>, IsAbs(wd)))

\* C29: ValidateWorkdir(p) accepts p if and only if p is non-empty and its
\* cleaned form equals some configured root or lies strictly below one at a
\* path-separator boundary, for every configured root (the root "/" included)
\* and every path.
C29_AcceptsExactlyBelowRoot ==
    \A n \in 1..Len(checked) :
        LET c == checked[n]
        IN c.ok <=> /\ c.workdir # EmptyPath
                    /\ \E i \in 1..Len(c.roots) : EqualOrBelow(Clean(c.workdir), c.roots[i])

\* C31: a plain-text prompt (or /codex <prompt>, /claude <prompt>) for a
\* session whose workdir is unset produces a reply, creates no Job row and
\* enqueues nothing; a prompt is accepted only after a workdir has been set
\* for that session.
C31_PromptNeedsWorkdir ==
    /\ [][\A h \in HandlerIds, k \in Keys, exName \in AdapterNames :
            (enqueueJobAs(h, k, exName) /\ Workdir(k) = EmptyPath)
            => /\ lastReply'[KeyString(k)] = "workdir is not set"
               /\ UNCHANGED <<jobs, events, chans, sessionQueue, handlers,
                              sendOrder, replies, nextJob>>]_vars
    /\ [](\A j \in DOMAIN jobs :
            /\ jobs[j].workdir # EmptyPath
            /\ SessionWorkdir(sessions, jobs[j].key) # EmptyPath)
    /\ [](\A i \in ChanIds : \A n \in 1..Len(chans[i].buf) :
            chans[i].buf[n].workdir # EmptyPath)

\* one session was told to set a workdir first while the other, which had
\* sent /cd, had its prompt accepted
C31_Witness ==
    /\ lastReply[KeyString(KTg)] = "workdir is not set"
    /\ SessionWorkdir(sessions, KTg) = EmptyPath
    /\ \E j \in DOMAIN jobs : jobs[j].key = KWa
    /\ \A j \in DOMAIN jobs : jobs[j].key = KWa

\* a message of session k that names the executor exName is handled
SetsExecutor(k, exName) ==
    \/ HandleSetExecutor(k, exName)
    \/ \E h \in HandlerIds : HandleExecutorPrompt(h, k, exName)

\* C32: a plain-text prompt is enqueued for the session's default executor,
\* which is codex until /codex or /claude (with or without a prompt) sets it
\* for that session, is the last one so set afterwards, and is codex again
\* after /reset; setting it for one session never changes another session's.
C32_DefaultExecutor ==
    /\ \A k \in Keys : defaultExecutor(k) = "codex"
    /\ [][\A k \in Keys :
            /\ \A h \in HandlerIds :
                  (enqueueJob(h, k) /\ nextJob' # nextJob)
                  => /\ jobs'[nextJob'].executor = defaultExecutor(k)
                     /\ handlers'[h].job.executor = defaultExecutor(k)
            /\ \A exName \in AdapterNames :
                  SetsExecutor(k, exName) => defaultExecutor(k)' = exName
            /\ HandleReset(k) => defaultExecutor(k)' = "codex"
            /\ (~HandleReset(k) /\ \A exName \in AdapterNames : ~SetsExecutor(k, exName))
                  => defaultExecutor(k)' = defaultExecutor(k)]_vars

\* a plain prompt of one session was enqueued for claude after /claude,
\* while the other session's default is still codex
C32_Witness ==
    /\ \E j \in DOMAIN jobs : jobs[j].key = KTg /\ jobs[j].executor = "claude"
    /\ lastReply[KeyString(KTg)] = "job queued"
    /\ DefaultExecutor(KTg) = "claude"
    /\ defaultExecutor(KWa) = "codex"
    /\ lastReply[KeyString(KWa)] = "session reset"

RowsOf(ks) == {r \in sessionRows : r.key = ks}

\* C33: UpsertSession changes only the workdir of the key's row and
\* SetSessionPermissionMode only the mode in its context: however the two are
\* interleaved on a key, also when neither found a row, the key has exactly
\* one row once either has written, and that row holds the last workdir
\* UpsertSession wrote and the last mode SetSessionPermissionMode wrote.
C33_RowKeepsBoth ==
    /\ [](\A k \in Keys :
            LET ks == KeyString(k)
            IN /\ Cardinality(RowsOf(ks)) <= 1
               /\ (ks \in DOMAIN storeCalls.workdir \/ ks \in DOMAIN storeCalls.mode)
                     => Cardinality(RowsOf(ks)) = 1
               /\ ks \in DOMAIN storeCalls.workdir
                     => \A r \in RowsOf(ks) : r.workdir = storeCalls.workdir[ks]
               /\ ks \in DOMAIN storeCalls.mode
                     => \A r \in RowsOf(ks) : RowMode(r) = storeCalls.mode[ks])
    /\ [][\A k \in Keys :
            /\ (\E wd \in SaveWorkdirs : StoreUpsertSession(k, wd))
                  => /\ \A r \in RowsOf(KeyString(k)) :
                           \E r2 \in sessionRows' : r2.key = r.key /\ r2.context = r.context
                     /\ \A r \in sessionRows : r.key # KeyString(k) => r \in sessionRows'
            /\ \A c \in StoreCallIds :
                  (StoreSetModeExec(c, RootCtx) /\ storeCalls.calls[c].key = k)
                  => /\ \A r \in RowsOf(KeyString(k)) :
                           \E r2 \in sessionRows' : r2.key = r.key /\ r2.workdir = r.workdir
                     /\ \A r \in sessionRows : r.key # KeyString(k) => r \in sessionRows']_vars

\* a SetSessionPermissionMode call that found no row has written its mode
\* after an UpsertSession on the same key wrote a workdir in between
C33_Witness ==
    \E k \in Keys :
        /\ KeyString(k) \in DOMAIN storeCalls.workdir
        /\ KeyString(k) \in DOMAIN storeCalls.mode
        /\ \E r \in RowsOf(KeyString(k)) : r.workdir = PApp /\ RowMode(r) = "full-access"
        /\ \E c \in StoreCallIds :
              /\ storeCalls.calls[c].pc = "idle"
              /\ storeCalls.calls[c].key = k
              /\ ~storeCalls.calls[c].found
              /\ storeCalls.calls[c].conflict

\* after the root context is cancelled every worker loop has eventually
\* returned
WorkersReturn == [](rootDone => <>(\A i \in ChanIds : chans[i].pc = "exited"))

C35_SavesLastSessionId ==
    /\ [](\A i \in ChanIds :
            (chans[i].pc \in {"finish", "defer"} /\ chans[i].w.sid # "")
            => LoadSession(execSessions, RootCtx, chans[i].w.job.executor,
                           chans[i].w.job) = chans[i].w.sid)
    /\ [][\A i \in ChanIds :
            (runJobSave(i) /\ chans[i].w.sid = "") => UNCHANGED execSessions]_vars

\* C36: with no Manager call in progress, after any SetWorkdir and Workdir
\* calls on a key, also when a Store write failed, the workdir cached for the
\* key is the workdir of the key's sessions row, so that a cached read and a
\* cold read agree.
C36_CacheEqualsRow ==
    \A k \in Keys :
        KeyString(k) \in DOMAIN workdirs
            => workdirs[KeyString(k)] = SessionWorkdir(sessions, k)

\* the Job values on their way: in a handler, in a queue, in a worker
Carried ==
    {handlers[h].job : h \in {x \in HandlerIds : handlers[x].pc # "idle"}}
    \cup UNION {{chans[i].buf[n] : n \in 1..Len(chans[i].buf)} : i \in ChanIds}
    \cup {chans[i].w.job : i \in {x \in ChanIds : chans[x].pc \notin {"select", "exited"}}}

Registered ==
    {chans[i].w.job.id :
        i \in {x \in ChanIds :
                 chans[x].pc \in {"spawn", "child", "final", "save", "finish", "defer"}}}

\* the jobs waiting in a queue
Queued == UNION {{chans[i].buf[n].id : n \in 1..Len(chans[i].buf)} : i \in ChanIds}

\* C38: the in-flight map holds a job id exactly while the job's runJob
\* invocation is between registering and returning; "/stop <id>" cancels the
\* job if and only if the id is in the map at that moment, whichever session
\* sends it, and for any other id (queued, finished, unknown) it replies
\* "job not found" and changes nothing, so that a queued job is never
\* cancelled before it runs.
C38_StopOnlyInFlight ==
    /\ [](inflight = Registered)
    /\ [](cancelled \cap Queued = {})
    /\ [][\A k \in Keys, id \in StopIds :
            HandleStop(k, id)
            => IF id \in inflight
               THEN /\ cancelled' = cancelled \cup {id}
                    /\ lastReply'[KeyString(k)] = "stop signal sent"
               ELSE /\ lastReply'[KeyString(k)] = "job not found"
                    /\ UNCHANGED <<jobs, events, execSessions, chans, sessionQueue,
                                   sem, inflight, cancelled, handlers, nextJob,
                                   sendOrder, runLog, replies>>]_vars

\* a WhatsApp session has stopped the running job of a Telegram session, and
\* the Telegram session was told that the job queued behind it is not found
C38_Witness ==
    \E id \in cancelled, i \in ChanIds :
        /\ chans[i].w.job.id = id
        /\ chans[i].w.job.key = KTg
        /\ chans[i].pc = "child"
        /\ chans[i].buf # << >>
        /\ lastReply[KeyString(KWa)] = "stop signal sent"
        /\ lastReply[KeyString(KTg)] = "job not found"

\* C39: session keys that differ in platform, chat id or thread id never
\* serialize to the same string, for every chat id and thread id a transport
\* delivers, so that what the Manager and the sessions table hold for one
\* conversation is never changed by a call made for another one.
C39_KeysNeverShared ==
    [][\A k1 \in DeliveredKeys, k2 \in DeliveredKeys :
         k1 # k2 =>
            /\ (\E wd \in ManagerWorkdirs : ManagerSetWorkdir(k1, wd, RootCtx))
                  => /\ Workdir(k2)' = Workdir(k2)
                     /\ SessionWorkdir(sessions, k2)' = SessionWorkdir(sessions, k2)
            /\ ManagerSetDefaultExecutor(k1, "claude")
                  => DefaultExecutor(k2)' = DefaultExecutor(k2)
            /\ ManagerReset(k1)
                  => /\ Workdir(k2)' = Workdir(k2)
                     /\ DefaultExecutor(k2)' = DefaultExecutor(k2)]_vars

\* C40: handling /reset changes only the Manager's in-memory entries of
\* the session: the stored executor session ids, the Job rows, the sessions
\* rows, the queues and the running jobs stay as they are, the workdir read
\* afterwards is the one of the sessions row, and a prompt accepted right
\* after it carries the session id stored for its executor and workdir.
C40_ResetKeepsStore ==
    /\ [][\A k \in Keys :
            HandleReset(k)
            => /\ UNCHANGED <<execSessions, jobs, events, sessions, contexts, chans,
                             sessionQueue, sem, inflight, cancelled, handlers>>
               /\ Workdir(k)' = SessionWorkdir(sessions, k)
               /\ \A l \in Keys \ {k} :
                     /\ Workdir(l)' = Workdir(l)
                     /\ PermissionMode(l)' = PermissionMode(l)
                     /\ DefaultExecutor(l)' = DefaultExecutor(l)]_vars
    /\ [][\A k \in Keys :
            (enqueueJob(1, k) /\ nextJob' # nextJob /\ lastReply[KeyString(k)] = "session reset")
            => /\ handlers'[1].job.workdir = SessionWorkdir(sessions, k)
               /\ handlers'[1].job.session =
                     GetExecutorSession(execSessions, handlers'[1].job.executor, k,
                                        SessionWorkdir(sessions, k))]_vars

\* the prompt after a /reset resumes the session id saved by an earlier job
C40_Witness ==
    /\ handlers[1].pc = "enqueue"
    /\ handlers[1].job.session = "S1"
    /\ lastReply[KeyString(handlers[1].key)] = "session reset"
    /\ \E j \in DOMAIN jobs : advertised[j] = "S1"

====
